---------------------------- MODULE Spec2Model ----------------------------
(***************************************************************************)
(* A model of the live paper-trading loop (runner.run_live) with the risk  *)
(* ledger (risk.rules.RiskRules), the ATR stops, the single-candle paper   *)
(* executor, the ensemble and the candle/signal/trade tables of the store. *)
(*                                                                         *)
(* Numbers are fixed point.  Prices and ATR values are integer ticks.  A   *)
(* fraction such as pnl_pct is kept in basis points (1/10000), pnl_r and   *)
(* daily_loss_r in hundredths of R, the ATR multipliers in tenths.  Time   *)
(* is in milliseconds; the clock moves by whole candle periods.            *)
(*                                                                         *)
(* Indicator values (ta library) are inputs of a decision step: the votes  *)
(* of the three strategies, the regime, the BTC state, the market quality  *)
(* score and the ATR are drawn from small sets.                            *)
(***************************************************************************)
EXTENDS Integers, Sequences, FiniteSets, TLC

\* ------------------------------------------------------------------ bounds

\* The clock stops after MaxTime candle periods.
MaxTime == 2

\* settings.live.candle_limit: rows per fetch and per frame.
candle_limit == 2

\* the signals table is followed up to this many rows
MaxSignals == 4

\* In the specification of the sleeping loop the clock stops after MaxLagTime
\* candle periods.
MaxLagTime == 3

\* Bound of the ledger-only specification: calls of register_trade_result.
MaxResults == 4

\* Bound of the executor-only specification: calls of simulate_trade.
MaxPaperCalls == 2

\* Bound of the adaptive-risk specification: losing_streak is followed up to
\* this value.
MaxStreak == 4

\* ------------------------------------------------------- program constants

\* RiskSettings (config/settings.py), fixed point as described above.
risk_per_trade_pct == 50
max_daily_loss_r == 300
max_positions == 2
stop_atr_mult == 12
take_atr_mult == 18
max_positions_per_cluster == 1
\* MarketQualitySettings.min_trade_score
min_trade_score == 70
\* ensemble.py line 25: the admission floor of the market quality score
mqs_floor == 50

\* TrendSettings.min_atr_pct, in basis points
min_atr_pct == 40
\* the paper equity run_live sizes against (runner.py line 409)
paper_equity == 1000

\* SQL NULL of a nullable column (exit_time_ms, exit_price, pnl_pct)
NULL == -999999
\* Python None for a missing value (dict.get, a query without rows)
None == -888888

Symbols == {"A", "B"}
\* the symbol whose candles give the BTC state (runner.py line 247)
btc_symbol == "BTC/USDT"
\* UniverseSettings.max_symbols, also the default of run_live's max_symbols
max_symbols == 15
\* symbols_override, as the caller passes it (runner.py line 221)
symbols_override == <<"A", "B">>

Directions == {"LONG", "SHORT", "NONE"}
Regimes == {"TREND_CLEAN", "RANGE", "CHAOTIC", "TRANSITION"}
BtcStates == {"SQUEEZE", "EXPANDING_UP", "EXPANDING_DOWN", "CHOP"}
StrategyNames == <<"trend_ema", "breakout_donchian", "mean_reversion_bb">>

\* --------------------------------------------------------------- helpers

Min(a, b) == IF a <= b THEN a ELSE b
Max(a, b) == IF a >= b THEN a ELSE b
Abs(a) == IF a < 0 THEN 0 - a ELSE a
Range(s) == {s[i] : i \in 1..Len(s)}

\* dict.get(key, default) on a function whose domain is the dict's keys
Get(d, k, default) == IF k \in DOMAIN d THEN d[k] ELSE default

\* an empty dict
EmptyDict == [x \in {} |-> 0]

\* d.pop(k, None) on a dict
Remove(d, k) == [x \in (DOMAIN d) \ {k} |-> d[x]]

\* d[k] = v on a dict
Put(d, k, v) == [x \in (DOMAIN d) \cup {k} |-> IF x = k THEN v ELSE d[x]]

\* ------------------------------------------------------- risk/rules.py

\* RiskRules(...) as run_live constructs it
NewRiskRules(cd) ==
  [max_daily_loss_r |-> max_daily_loss_r, max_positions |-> max_positions,
   cooldown_candles |-> cd, daily_loss_r |-> 0, positions_open |-> 0,
   cooldowns |-> EmptyDict, kill_switch |-> FALSE]

\* a ledger that counts every result as a loss
register_trade_result_abs(rr, pnl_r) ==
  LET loss == rr.daily_loss_r - Abs(pnl_r)
  IN [rr EXCEPT !.daily_loss_r = loss,
                !.kill_switch = IF Abs(loss) >= rr.max_daily_loss_r
                                THEN TRUE ELSE rr.kill_switch]

\* a ledger that nets gains against losses and recomputes the switch
register_trade_result_net(rr, pnl_r) ==
  LET loss == rr.daily_loss_r + pnl_r
  IN [rr EXCEPT !.daily_loss_r = loss,
                !.kill_switch = Abs(loss) >= rr.max_daily_loss_r]

register_trade_result(rr, pnl_r) ==
  LET loss == rr.daily_loss_r + Min(0, pnl_r)
  IN [rr EXCEPT !.daily_loss_r = loss,
                !.kill_switch = IF Abs(loss) >= rr.max_daily_loss_r
                                THEN TRUE ELSE rr.kill_switch]

\* a ledger that lets one position more than max_positions through
can_open_at_cap(rr, symbol) ==
  IF rr.kill_switch THEN FALSE
  ELSE IF rr.positions_open > rr.max_positions THEN FALSE
  ELSE IF Get(rr.cooldowns, symbol, 0) > 0 THEN FALSE
  ELSE TRUE

\* a ledger that does not count the open positions
can_open_without_cap(rr, symbol) ==
  IF rr.kill_switch THEN FALSE
  ELSE IF Get(rr.cooldowns, symbol, 0) > 0 THEN FALSE
  ELSE TRUE

\* a ledger that lets opens through while the switch is on
can_open_despite_kill_switch(rr, symbol) ==
  IF rr.positions_open >= rr.max_positions THEN FALSE
  ELSE IF Get(rr.cooldowns, symbol, 0) > 0 THEN FALSE
  ELSE TRUE

can_open(rr, symbol) ==
  IF rr.kill_switch THEN FALSE
  ELSE IF rr.positions_open >= rr.max_positions THEN FALSE
  ELSE IF Get(rr.cooldowns, symbol, 0) > 0 THEN FALSE
  ELSE TRUE

\* a tick that counts below zero
tick_without_floor(rr) ==
  [rr EXCEPT !.cooldowns = [s \in DOMAIN rr.cooldowns |-> rr.cooldowns[s] - 1]]

tick(rr) ==
  [rr EXCEPT !.cooldowns = [s \in DOMAIN rr.cooldowns |-> Max(0, rr.cooldowns[s] - 1)]]

apply_cooldown(rr, symbol) ==
  [rr EXCEPT !.cooldowns = Put(rr.cooldowns, symbol, rr.cooldown_candles)]

\* ------------------------------------------------------- risk/stops.py

\* atr_stops without the SHORT branch: the LONG arithmetic for every direction
atr_stops_long_only(entry, atr_value, direction, stop_mult, take_mult) ==
  [stop |-> entry - (atr_value * stop_mult) \div 10,
   take |-> entry + (atr_value * take_mult) \div 10]

atr_stops(entry, atr_value, direction, stop_mult, take_mult) ==
  IF direction = "LONG"
  THEN [stop |-> entry - (atr_value * stop_mult) \div 10,
        take |-> entry + (atr_value * take_mult) \div 10]
  ELSE [stop |-> entry + (atr_value * stop_mult) \div 10,
        take |-> entry - (atr_value * take_mult) \div 10]

\* --------------------------------------------------- execution/paper.py

\* an executor that resolves a candle hitting both levels as STOP, whatever
\* worst_case_same_candle says
simulate_trade_stop_first(direction, entry_price, stop_price, take_price, candle_high, candle_low, worst_case_same_candle) ==
  LET hit_stop == IF direction = "LONG" THEN candle_low <= stop_price
                  ELSE candle_high >= stop_price
      hit_take == IF direction = "LONG" THEN candle_high >= take_price
                  ELSE candle_low <= take_price
      exit_price == IF hit_stop THEN stop_price ELSE IF hit_take THEN take_price ELSE NULL
      status == IF hit_stop THEN "STOP" ELSE IF hit_take THEN "TAKE" ELSE "OPEN"
      raw == ((exit_price - entry_price) * 10000) \div entry_price
      pnl_pct == IF exit_price = NULL THEN NULL
                 ELSE IF direction = "SHORT" THEN 0 - raw ELSE raw
  IN [status |-> status, exit_price |-> exit_price, pnl_pct |-> pnl_pct]

\* an executor for which a level is hit only when the candle goes beyond it
simulate_trade_strict_hits(direction, entry_price, stop_price, take_price, candle_high, candle_low, worst_case_same_candle) ==
  LET hit_stop == IF direction = "LONG" THEN candle_low < stop_price
                  ELSE candle_high > stop_price
      hit_take == IF direction = "LONG" THEN candle_high > take_price
                  ELSE candle_low < take_price
      exit_price == IF hit_stop /\ hit_take
                    THEN (IF worst_case_same_candle THEN stop_price ELSE take_price)
                    ELSE IF hit_stop THEN stop_price
                    ELSE IF hit_take THEN take_price
                    ELSE NULL
      status == IF hit_stop /\ hit_take
                THEN (IF worst_case_same_candle THEN "STOP" ELSE "TAKE")
                ELSE IF hit_stop THEN "STOP"
                ELSE IF hit_take THEN "TAKE"
                ELSE "OPEN"
      raw == ((exit_price - entry_price) * 10000) \div entry_price
      pnl_pct == IF exit_price = NULL THEN NULL
                 ELSE IF direction = "SHORT" THEN 0 - raw ELSE raw
  IN [status |-> status, exit_price |-> exit_price, pnl_pct |-> pnl_pct]

simulate_trade(direction, entry_price, stop_price, take_price, candle_high, candle_low, worst_case_same_candle) ==
  LET hit_stop == IF direction = "LONG" THEN candle_low <= stop_price
                  ELSE candle_high >= stop_price
      hit_take == IF direction = "LONG" THEN candle_high >= take_price
                  ELSE candle_low <= take_price
      exit_price == IF hit_stop /\ hit_take
                    THEN (IF worst_case_same_candle THEN stop_price ELSE take_price)
                    ELSE IF hit_stop THEN stop_price
                    ELSE IF hit_take THEN take_price
                    ELSE NULL
      status == IF hit_stop /\ hit_take
                THEN (IF worst_case_same_candle THEN "STOP" ELSE "TAKE")
                ELSE IF hit_stop THEN "STOP"
                ELSE IF hit_take THEN "TAKE"
                ELSE "OPEN"
      raw == ((exit_price - entry_price) * 10000) \div entry_price
      pnl_pct == IF exit_price = NULL THEN NULL
                 ELSE IF direction = "SHORT" THEN 0 - raw ELSE raw
  IN [status |-> status, exit_price |-> exit_price, pnl_pct |-> pnl_pct]

\* -------------------------------------------------- strategy/ensemble.py

\* the admission filter without its regime test
filter_strategies_any_regime(strategies, regime, btc_state, mqs) ==
  IF mqs < mqs_floor THEN <<>>
  ELSE SelectSeq(strategies,
         LAMBDA name :
           /\ ~(name = "mean_reversion_bb" /\ regime # "RANGE")
           /\ ~(name \in {"trend_ema", "breakout_donchian"}
                /\ btc_state \in {"SQUEEZE", "CHOP"}))

\* the admission filter without its BTC-state test
filter_strategies_any_btc_state(strategies, regime, btc_state, mqs) ==
  IF mqs < mqs_floor \/ regime = "CHAOTIC" THEN <<>>
  ELSE SelectSeq(strategies, LAMBDA name : ~(name = "mean_reversion_bb" /\ regime # "RANGE"))

\* the names of the admitted strategies, in the order given
filter_strategies(strategies, regime, btc_state, mqs) ==
  IF mqs < mqs_floor \/ regime = "CHAOTIC" THEN <<>>
  ELSE SelectSeq(strategies,
         LAMBDA name :
           /\ ~(name = "mean_reversion_bb" /\ regime # "RANGE")
           /\ ~(name \in {"trend_ema", "breakout_donchian"}
                /\ btc_state \in {"SQUEEZE", "CHOP"}))

\* an ensemble that follows the plurality of the votes, with no required
\* majority
ensemble_plurality(strategies, cast, regime, btc_state, mqs, close) ==
  LET allowed == filter_strategies(strategies, regime, btc_state, mqs)
      votes == [name \in Range(allowed) |-> cast[name]]
      long_votes == Cardinality({n \in DOMAIN votes : votes[n] = "LONG"})
      short_votes == Cardinality({n \in DOMAIN votes : votes[n] = "SHORT"})
  IN [direction |-> IF long_votes > short_votes THEN "LONG"
                    ELSE IF short_votes > long_votes THEN "SHORT" ELSE "NONE",
      price |-> close, confidence |-> 0, votes |-> votes]

\* cast[name] is the verdict strategy `name` would give if it were consulted
ensemble(strategies, cast, regime, btc_state, mqs, close) ==
  LET allowed == filter_strategies(strategies, regime, btc_state, mqs)
      votes == [name \in Range(allowed) |-> cast[name]]
      long_votes == Cardinality({n \in DOMAIN votes : votes[n] = "LONG"})
      short_votes == Cardinality({n \in DOMAIN votes : votes[n] = "SHORT"})
      total == Cardinality(DOMAIN votes)
      required0 == IF total >= 3 THEN 2 ELSE total
      required == IF mqs_floor <= mqs /\ mqs < min_trade_score THEN total ELSE required0
      direction == IF long_votes >= required /\ long_votes > short_votes THEN "LONG"
                   ELSE IF short_votes >= required /\ short_votes > long_votes THEN "SHORT"
                   ELSE "NONE"
  IN IF allowed = <<>>
     THEN [direction |-> "NONE", price |-> close, confidence |-> 0, votes |-> votes]
     ELSE [direction |-> direction, price |-> close,
           confidence |-> (Max(long_votes, short_votes) * 100) \div total,
           votes |-> votes]

\* ------------------------------------------------------ risk/adaptive.py

NewAdaptiveState ==
  [losing_streak |-> 0, weekly_drawdown |-> 0, monthly_drawdown |-> 0,
   defensive_mode |-> FALSE]

\* an adjust_risk that looks at the weekly drawdown only
adjust_risk_weekly_only(base_risk, state) ==
  LET r1 == IF state.losing_streak >= 3 THEN (base_risk * 5) \div 10 ELSE base_risk
      dd == state.weekly_drawdown >= 1000
  IN [risk |-> IF dd THEN (r1 * 3) \div 10 ELSE r1,
      state |-> IF dd THEN [state EXCEPT !.defensive_mode = TRUE] ELSE state]

update_streak(state, pnl) ==
  IF pnl < 0 THEN [state EXCEPT !.losing_streak = state.losing_streak + 1]
  ELSE [state EXCEPT !.losing_streak = 0]

\* drawdowns in basis points (0.1 = 1000, 0.2 = 2000); risk in basis points
adjust_risk(base_risk, state) ==
  LET r1 == IF state.losing_streak >= 3 THEN (base_risk * 5) \div 10 ELSE base_risk
      dd == state.weekly_drawdown >= 1000 \/ state.monthly_drawdown >= 2000
  IN [risk |-> IF dd THEN (r1 * 3) \div 10 ELSE r1,
      state |-> IF dd THEN [state EXCEPT !.defensive_mode = TRUE] ELSE state]

\* -------------------------------------------------------- risk/sizing.py

\* risk_amount in 1/10000 of the equity currency, qty in the same per tick
position_size(equity, risk_pct, entry, stop) ==
  LET risk_amount == equity * risk_pct
      risk_per_unit == Abs(entry - stop)
  IN IF risk_per_unit = 0 THEN [qty |-> 0, risk_amount |-> risk_amount]
     ELSE [qty |-> risk_amount \div risk_per_unit, risk_amount |-> risk_amount]

\* ---------------------------------------------------- market/clusters.py

RECURSIVE find(_, _)
find(parent, item) == IF parent[item] = item THEN item ELSE find(parent, parent[item])

\* a union that links the two items themselves, not their roots
union_without_find(parent, a, b) == IF a # b THEN [parent EXCEPT ![b] = a] ELSE parent

union(parent, a, b) ==
  LET ra == find(parent, a)
      rb == find(parent, b)
  IN IF ra # rb THEN [parent EXCEPT ![rb] = ra] ELSE parent

RECURSIVE union_all(_, _)
union_all(parent, pairs) ==
  IF pairs = <<>> THEN parent
  ELSE union_all(union(parent, Head(pairs)[1], Head(pairs)[2]), Tail(pairs))

\* the ids in order of first appearance of each root along items
RECURSIVE assign_ids(_, _, _, _, _)
assign_ids(parent, items, root_map, clusters_, next_id) ==
  IF items = <<>> THEN clusters_
  ELSE LET item == Head(items)
           root == find(parent, item)
           fresh == root \notin DOMAIN root_map
           rm == IF fresh THEN Put(root_map, root, next_id) ELSE root_map
       IN assign_ids(parent, Tail(items), rm, Put(clusters_, item, rm[root]),
                     IF fresh THEN next_id + 1 ELSE next_id)

union_find(items, pairs) ==
  assign_ids(union_all([i \in Range(items) |-> i], pairs), items, EmptyDict, EmptyDict, 0)

\* build_clusters: `above` is the set of pairs whose correlation is >= threshold;
\* the pairs are visited in the order of the columns
RECURSIVE ordered_pairs(_, _)
ordered_pairs(symbols, above) ==
  IF symbols = <<>> THEN <<>>
  ELSE LET a == Head(symbols)
           rest == Tail(symbols)
           mine == SelectSeq(rest, LAMBDA b : <<a, b>> \in above)
       IN [i \in 1..Len(mine) |-> <<a, mine[i]>>] \o ordered_pairs(rest, above)

build_clusters(symbols, above) == union_find(symbols, ordered_pairs(symbols, above))

\* ---------------------------------------------------- data/collector.py

\* CandleCollector._timeframe_to_ms
timeframe_to_ms(value, unit) ==
  IF unit = "m" THEN value * 60 * 1000
  ELSE IF unit = "h" THEN value * 60 * 60 * 1000
  ELSE IF unit = "d" THEN value * 24 * 60 * 60 * 1000
  ELSE None

\* RunnerSettings.timeframe, "15m"
timeframe == [value |-> 15, unit |-> "m"]
close_delta == timeframe_to_ms(timeframe.value, timeframe.unit)

\* the rows sync_candles builds from the fetched window: raw[i] is
\* <<open_time_ms, open, high, low, close>> (the volume is left out)
candle_rows(raw) ==
  [i \in 1..Len(raw) |->
     [open_time_ms |-> raw[i][1], open |-> raw[i][2], high |-> raw[i][3],
      low |-> raw[i][4], close |-> raw[i][5],
      close_time_ms |-> raw[i][1] + close_delta]]

\* ------------------------------------------------------ storage/repo.py

\* a table is kept as the sequence of its rows in ascending key order
RECURSIVE insert_sorted(_, _)
insert_sorted(tbl, row) ==
  IF tbl = <<>> THEN <<row>>
  ELSE IF row.open_time_ms < Head(tbl).open_time_ms THEN <<row>> \o tbl
  ELSE <<Head(tbl)>> \o insert_sorted(Tail(tbl), row)

\* INSERT OR REPLACE of one row under PRIMARY KEY (exchange, symbol,
\* timeframe, open_time_ms); tbl holds the rows of one symbol
insert_or_replace(tbl, row) ==
  insert_sorted(SelectSeq(tbl, LAMBDA r : r.open_time_ms # row.open_time_ms), row)

RECURSIVE upsert_candles(_, _)
upsert_candles(tbl, rows) ==
  IF rows = <<>> THEN tbl
  ELSE upsert_candles(insert_or_replace(tbl, Head(rows)), Tail(rows))

\* the last n elements of a sequence
LastN(s, n) == IF Len(s) <= n THEN s ELSE SubSeq(s, Len(s) - n + 1, Len(s))

\* fetch_recent_candles followed by _rows_to_df: the most recent `limit`
\* rows in ascending open_time_ms
fetch_recent_candles(tbl, limit) == LastN(tbl, limit)

\* fetch_latest_candle_open_time: the largest open_time_ms stored, or None
fetch_latest_candle_open_time(tbl) ==
  IF tbl = <<>> THEN None ELSE tbl[Len(tbl)].open_time_ms

\* fetch_latest_closed_candle_open_time: the largest open_time_ms whose
\* close_time_ms <= now_ms, or None
fetch_latest_closed_candle_open_time(tbl, now_ms) ==
  LET closed == {i \in 1..Len(tbl) : tbl[i].close_time_ms <= now_ms}
  IN IF closed = {} THEN None
     ELSE tbl[CHOOSE i \in closed : \A j \in closed : j <= i].open_time_ms

\* a store_signal that keeps only directional signals
store_signal_if_directional(sigs, symbol, signal_time_ms, signal_type, price) ==
  IF signal_type = "NONE" THEN sigs
  ELSE Append(sigs, [id |-> Len(sigs) + 1, symbol |-> symbol,
                     signal_time_ms |-> signal_time_ms, type |-> signal_type,
                     price |-> price])

\* store_signal: INSERT INTO signals, returning lastrowid (the columns
\* timeframe, confidence, reasons_json and created_at_ms are left out)
store_signal(sigs, symbol, signal_time_ms, signal_type, price) ==
  Append(sigs, [id |-> Len(sigs) + 1, symbol |-> symbol,
                signal_time_ms |-> signal_time_ms, type |-> signal_type,
                price |-> price])

\* open_trade: a new trades_simulated row with status OPEN and no exit
open_trade(trs, signal_id, direction, entry_price, stop_price, take_price, size) ==
  Append(trs, [id |-> Len(trs) + 1, signal_id |-> signal_id, direction |-> direction,
               entry_price |-> entry_price, stop_price |-> stop_price,
               take_price |-> take_price, status |-> "OPEN",
               exit_time_ms |-> NULL, exit_price |-> NULL, pnl_pct |-> NULL,
               size |-> size])

\* close_trade: fails (ok = FALSE, nothing written) if the trade is not OPEN
close_trade(trs, trade_id, exit_price, exit_time_ms, pnl_pct, status) ==
  IF trs[trade_id].status # "OPEN" THEN [ok |-> FALSE, trades |-> trs]
  ELSE [ok |-> TRUE,
        trades |-> [trs EXCEPT ![trade_id].status = status,
                               ![trade_id].exit_price = exit_price,
                               ![trade_id].exit_time_ms = exit_time_ms,
                               ![trade_id].pnl_pct = pnl_pct]]

\* get_open_positions: the OPEN trades with the symbol of their signal
get_open_positions(trs, sigs) ==
  LET open == SelectSeq(trs, LAMBDA t : t.status = "OPEN")
  IN [i \in 1..Len(open) |->
        [id |-> open[i].id, symbol |-> sigs[open[i].signal_id].symbol,
         direction |-> open[i].direction, entry_price |-> open[i].entry_price,
         stop_price |-> open[i].stop_price, take_price |-> open[i].take_price]]

\* ------------------------------------------------------------ strategies

\* What the three strategies answer on the closed candles.  raw[name] is the
\* verdict the price pattern alone would give; trend_ema also requires
\* atr_pct >= min_atr_pct (trend_ema.py lines 34 and 42), and on a flat
\* series (every true range 0, so ATR = 0) no pattern gives a direction.
strategy_votes(raw, atr_value, close) ==
  [name \in Range(StrategyNames) |->
     IF atr_value = 0 THEN "NONE"
     ELSE IF name = "trend_ema" /\ (atr_value * 10000) \div close < min_atr_pct THEN "NONE"
     ELSE raw[name]]

\* --------------------------------------------------------------- inputs

\* final shapes <<open, high, low, close>> of a candle: a quiet one and one
\* whose range reaches every stop and take the loop sets
Shapes == {<<1000, 1000, 1000, 1000>>, <<1000, 1030, 970, 1000>>}

\* a candle that is still forming: only its open is known
Forming == <<1000, 1000, 1000, 1000>>

\* the closed candle the exchange holds when the loop starts
FirstShape == <<1000, 1000, 1000, 1000>>

\* What a decision step may see: <<regime, btc_state, mqs>>, the raw verdicts
\* <<trend_ema, breakout_donchian, mean_reversion_bb>> and the ATR.  The four
\* lead to LONG, to SHORT, to NONE by the regime and to NONE on a flat series.
DecisionInputs ==
  {<<<<"RANGE", "CHOP", 80>>, <<"NONE", "NONE", "LONG">>, 5>>,
   <<<<"RANGE", "EXPANDING_DOWN", 80>>, <<"SHORT", "NONE", "SHORT">>, 15>>,
   <<<<"CHAOTIC", "EXPANDING_UP", 80>>, <<"LONG", "LONG", "LONG">>, 15>>,
   <<<<"RANGE", "CHOP", 80>>, <<"LONG", "LONG", "LONG">>, 0>>}

\* Settings and symbols the loop may be started with
SettingsChoices ==
  {[cooldown_candles |-> 2, entry_on |-> "close", worst_case_same_candle |-> TRUE,
    execute_real_trades |-> FALSE, max_positions |-> max_positions,
    symbols |-> symbols_override, max_symbols |-> max_symbols,
    universe_max_symbols |-> max_symbols, manual_override |-> <<>>],
   [cooldown_candles |-> 0, entry_on |-> "close", worst_case_same_candle |-> FALSE,
    execute_real_trades |-> TRUE, max_positions |-> max_positions,
    symbols |-> symbols_override, max_symbols |-> max_symbols,
    universe_max_symbols |-> max_symbols, manual_override |-> <<>>],
   [cooldown_candles |-> 2, entry_on |-> "next_open", worst_case_same_candle |-> TRUE,
    execute_real_trades |-> TRUE, max_positions |-> max_positions,
    symbols |-> symbols_override, max_symbols |-> max_symbols,
    universe_max_symbols |-> max_symbols, manual_override |-> <<>>]}

\* ------------------------------------------------------------ runner.py

VARIABLES
  now,                \* the clock: candle now is forming, the earlier ones are closed
  ohlcv_data,         \* the exchange: per symbol the candles published so far
  candles,            \* table candles, per symbol
  signals,            \* table signals
  trades,             \* table trades_simulated
  settings,           \* the Settings and symbols run_live was started with
  universe_daily,     \* table universe_daily: day -> symbols
  breaker,            \* the CircuitBreaker of the exchange client's guard
  clock,              \* time.time(), in seconds
  pc,                 \* where the loop is: start, ingest, clusters, decide, tick
  idx,                \* position in the universe (ingest) or the frames (decide)
  universe,           \* the resolved universe of this cycle
  last_processed,     \* run_live's per-symbol cursor
  risk_rules,         \* the RiskRules ledger
  adaptive_state,     \* the AdaptiveState
  open_by_symbol,     \* the open-position index of this cycle
  candle_frames,      \* symbol -> frame of this cycle
  frame_order,        \* the keys of candle_frames in insertion order
  clusters,           \* the cluster map of this cycle
  create_order_calls, \* calls of exchange.create_order so far
  crashed,            \* an exception left run_live
  same_window,        \* history: the symbols whose window, as fetched in this
                      \* cycle, held only rows the table already had
  call                \* the last call of a function exercised on its own

vars == <<now, ohlcv_data, candles, signals, trades, settings, universe_daily, breaker, clock, pc, idx, universe,
          last_processed, risk_rules, adaptive_state, open_by_symbol, candle_frames,
          frame_order, clusters, create_order_calls, crashed, same_window, call>>

\* no function has been exercised on its own
NoCall == [fn |-> "none"]

\* ------------------------------------------ exchange/rate_limit.py
max_failures == 5
cooldown_seconds == 30
max_retries == 4

\* CircuitBreaker(): closed, nothing counted
NewCircuitBreaker == [failures |-> 0, opened_at |-> None]

\* can_execute at time t: the answer and the breaker as the call leaves it
can_execute(b, t) ==
  IF b.opened_at = None THEN [admitted |-> TRUE, breaker |-> b]
  ELSE IF t - b.opened_at > cooldown_seconds
  THEN [admitted |-> TRUE, breaker |-> NewCircuitBreaker]
  ELSE [admitted |-> FALSE, breaker |-> b]

record_failure(b, t) ==
  [failures |-> b.failures + 1,
   opened_at |-> IF b.failures + 1 >= max_failures THEN t ELSE b.opened_at]

record_success(b) == [failures |-> 0, opened_at |-> None]

now_ms == now * close_delta

\* one candle as fetch_ohlcv returns it
raw_candle(t, shape) == <<t * close_delta, shape[1], shape[2], shape[3], shape[4]>>

\* the state run_live starts its loop in (lines 204-228), with the program
\* counter at `at`
\* the candles the exchange holds when the loop starts: two of every symbol,
\* and of BTC/USDT when the exchange has it
first_candles(btc_listed) ==
  [s \in Symbols \cup {btc_symbol} |->
     IF s = btc_symbol /\ ~btc_listed THEN <<>>
     ELSE <<raw_candle(0, FirstShape), raw_candle(1, Forming)>>]

BootFrom(at, choices, listings, breakers) ==
  /\ now = 1
  /\ breaker \in breakers
  /\ clock = 0
  /\ \E btc_listed \in listings : ohlcv_data = first_candles(btc_listed)
  /\ candles = [s \in Symbols |-> <<>>]
  /\ signals = <<>>
  /\ trades = <<>>
  /\ settings \in choices
  /\ universe_daily = EmptyDict
  /\ pc = at
  /\ idx = 1
  /\ universe = <<>>
  /\ last_processed = EmptyDict
  /\ risk_rules = [NewRiskRules(settings.cooldown_candles)
                     EXCEPT !.max_positions = settings.max_positions]
  /\ adaptive_state = NewAdaptiveState
  /\ open_by_symbol = EmptyDict
  /\ candle_frames = EmptyDict
  /\ frame_order = <<>>
  /\ clusters = EmptyDict
  /\ create_order_calls = 0
  /\ crashed = FALSE
  /\ same_window = {}
  /\ call = NoCall

BootOn(at, choices, listings) == BootFrom(at, choices, listings, {NewCircuitBreaker})

BootWith(at, choices) == BootOn(at, choices, {TRUE})

Boot(at) == BootWith(at, SettingsChoices)

Init == Boot("start")

\* A candle period ends: the forming candle of every symbol closes with its
\* final shape (the market moves as one) and the exchange starts the next one.
Advance ==
  /\ now < MaxTime
  /\ now' = now + 1
  /\ \E shape \in Shapes :
       ohlcv_data' = [s \in DOMAIN ohlcv_data |->
                        IF ohlcv_data[s] = <<>> THEN <<>>
                        ELSE Append([ohlcv_data[s] EXCEPT ![Len(ohlcv_data[s])] = raw_candle(now, shape)],
                                    raw_candle(now + 1, Forming))]
  /\ clock' = clock + (now' - now) * (close_delta \div 1000)
  /\ UNCHANGED <<candles, signals, trades, settings, universe_daily, breaker, pc, idx, universe, last_processed,
                 risk_rules, adaptive_state, open_by_symbol, candle_frames, frame_order,
                 clusters, create_order_calls, crashed, same_window, call>>

\* lines 253-255: the open positions indexed by symbol, in query order
RECURSIVE index_by_symbol(_, _)
index_by_symbol(positions, acc) ==
  IF positions = <<>> THEN acc
  ELSE LET row == Head(positions)
       IN index_by_symbol(Tail(positions),
                          Put(acc, row.symbol, Append(Get(acc, row.symbol, <<>>), row)))

\* a snapshot that starts every cycle with no position counted
positions_open_reset(open_positions) == 0

\* line 256: the ledger's positions_open is set from the store's open trades
positions_open_snapshot(open_positions) == Len(open_positions)

\* MockExchange.fetch_ohlcv: the last `limit` candles the exchange holds
fetch_ohlcv(symbol, limit) == LastN(ohlcv_data[symbol], limit)

\* CandleCollector.sync_candles on the table of one symbol
sync_candles(tbl, raw) ==
  IF raw = <<>> THEN [table |-> tbl, new_count |-> 0]
  ELSE LET rows == candle_rows(raw)
           last_open_time == fetch_latest_candle_open_time(tbl)
           new_count == IF last_open_time = None THEN Len(rows)
                        ELSE Len(SelectSeq(rows, LAMBDA r : r.open_time_ms > last_open_time))
       IN [table |-> upsert_candles(tbl, rows), new_count |-> new_count]

\* the first n items of a list, list[:n] for n >= 0
Head_n(list, n) == SubSeq(list, 1, Min(n, Len(list)))

\* line 221: the override run_live works with; is_none when no symbols were
\* passed (None or an empty list)
override_of(cfg) ==
  IF cfg.symbols = <<>> THEN [is_none |-> TRUE, list |-> <<>>]
  ELSE [is_none |-> FALSE, list |-> Head_n(cfg.symbols, cfg.max_symbols)]

\* line 145, `if symbols_override:`
supplied(override) == ~override.is_none /\ override.list # <<>>

\* line 150, datetime.now(timezone.utc).date(): the UTC day of the clock
today == now_ms \div 86400000

\* lines 165-168: the BTC frame.  Only whether it is empty is read from it,
\* so the BTC rows of the candles table are left out: the frame is the window
\* the exchange returns, empty when the exchange has no BTC/USDT candles.
btc_df == candle_rows(fetch_ohlcv(btc_symbol, candle_limit))

\* what the exchange and the market data give a universe build: the eligible
\* markets of lines 157-164, in the exchange's order, and the symbols that
\* pass the builder's filters, best score first
ExchangeAnswers ==
  {[markets |-> markets, ranking |-> ranking] :
     markets \in {<<>>, <<"A">>, <<"A", "B">>},
     ranking \in {<<>>, <<"A">>, <<"A", "B">>, <<"B", "A">>}}

\* the exchange is not asked
NoAnswer == [markets |-> <<>>, ranking |-> <<>>]

\* UniverseBuilder.build over the symbols that have a frame: the manual
\* override verbatim, else the ranked symbols cut to universe.max_symbols
build(cfg, symbol_candles, ranking) ==
  IF cfg.manual_override # <<>> THEN cfg.manual_override
  ELSE Head_n(SelectSeq(ranking, LAMBDA sym : sym \in symbol_candles), cfg.universe_max_symbols)

\* lines 172-177: every market is synced, the table after the loop
RECURSIVE sync_markets(_, _)
sync_markets(tbls, markets) ==
  IF markets = <<>> THEN tbls
  ELSE sync_markets([tbls EXCEPT ![Head(markets)] =
                       sync_candles(tbls[Head(markets)],
                                    fetch_ohlcv(Head(markets), candle_limit)).table],
                    Tail(markets))

\* fetch_universe(day): the row of the day, (symbols, meta) or null
fetch_universe(table, day) ==
  IF day \in DOMAIN table THEN [found |-> TRUE, symbols |-> table[day]]
  ELSE [found |-> FALSE, symbols |-> <<>>]

\* a resolution that asks the store before it looks at the override
resolve_universe_store_first(override, table, day, tbls, cfg, answer) ==
  IF fetch_universe(table, day).found
  THEN [symbols |-> fetch_universe(table, day).symbols, universe_daily |-> table, candles |-> tbls, source |-> "cache"]
  ELSE [symbols |-> override.list, universe_daily |-> table, candles |-> tbls,
        source |-> "override"]

\* _resolve_universe, lines 136-189: the symbols, the tables as it leaves them
\* and the branch taken
resolve_universe(override, table, day, tbls, cfg, answer) ==
  IF supplied(override)
  THEN [symbols |-> override.list, universe_daily |-> table, candles |-> tbls,
        source |-> "override"]
  ELSE IF fetch_universe(table, day).found
  THEN [symbols |-> fetch_universe(table, day).symbols, universe_daily |-> table,
        candles |-> tbls, source |-> "cache"]
  ELSE IF answer.markets = <<>>
  THEN [symbols |-> <<>>, universe_daily |-> table, candles |-> tbls, source |-> "no_markets"]
  ELSE IF btc_df = <<>>
  THEN [symbols |-> <<>>, universe_daily |-> table, candles |-> tbls, source |-> "btc_missing"]
  ELSE LET synced == sync_markets(tbls, answer.markets)
           symbol_candles == {sym \in Range(answer.markets) :
                                fetch_recent_candles(synced[sym], candle_limit) # <<>>}
           result == build(cfg, symbol_candles, answer.ranking)
       IN [symbols |-> result, universe_daily |-> Put(table, day, result),
           candles |-> synced, source |-> "builder"]

\* lines 234-244: the universe of the cycle
cycle_universe(cfg, table, day, tbls, answer) ==
  LET resolved == resolve_universe(override_of(cfg), table, day, tbls, cfg, answer)
  IN IF override_of(cfg).is_none /\ cfg.max_symbols # 0
     THEN [resolved EXCEPT !.symbols = Head_n(resolved.symbols, cfg.max_symbols)]
     ELSE resolved

\* the answers a cycle may get: none is asked for when an override is used
exchange_answers(cfg) ==
  IF supplied(override_of(cfg)) THEN {NoAnswer} ELSE ExchangeAnswers

\* line 335, detect_btc_state(btc_df, ...): _rows_to_df gives a frame without
\* columns for no rows (line 117), and atr(df) reads df["high"]: KeyError
detect_btc_state_raises(frame) == frame = <<>>

\* lines 231-259: universe, open-position snapshot, fresh frames
CycleStart ==
  /\ pc = "start" /\ ~crashed
  /\ can_execute(breaker, clock).admitted
  /\ breaker' = record_success(can_execute(breaker, clock).breaker)
  /\ \E answer \in exchange_answers(settings) :
       LET resolved == cycle_universe(settings, universe_daily, today, candles, answer)
       IN /\ universe' = resolved.symbols
          /\ universe_daily' = resolved.universe_daily
          /\ candles' = resolved.candles
  /\ LET open_positions == get_open_positions(trades, signals)
     IN /\ open_by_symbol' = index_by_symbol(open_positions, EmptyDict)
        /\ risk_rules' = [risk_rules EXCEPT !.positions_open = positions_open_snapshot(open_positions)]
  /\ candle_frames' = EmptyDict
  /\ frame_order' = <<>>
  /\ same_window' = {}
  /\ pc' = "ingest"
  /\ idx' = 1
  /\ UNCHANGED <<now, ohlcv_data, signals, trades, settings, clock, last_processed,
                 adaptive_state, clusters, create_order_calls, crashed, call>>

\* line 246 with the breaker open: guard.run raises RuntimeError at the
\* cycle's first exchange call, and nothing in run_live catches it
CycleRaises ==
  /\ pc = "start" /\ ~crashed
  /\ ~can_execute(breaker, clock).admitted
  /\ crashed' = TRUE
  /\ UNCHANGED <<now, ohlcv_data, candles, signals, trades, settings, universe_daily, breaker, clock,
                 pc, idx, universe, last_processed, risk_rules, adaptive_state, open_by_symbol,
                 candle_frames, frame_order, clusters, create_order_calls, same_window, call>>

\* lines 260-274, one pass of the loop over the universe
Ingest ==
  /\ pc = "ingest" /\ ~crashed
  /\ idx <= Len(universe)
  /\ LET symbol == universe[idx]
           synced == sync_candles(candles[symbol], fetch_ohlcv(symbol, candle_limit))
           df == fetch_recent_candles(synced.table, candle_limit)
       IN /\ candles' = [candles EXCEPT ![symbol] = synced.table]
          /\ same_window' = IF candles[symbol] # <<>> /\ synced.table = candles[symbol]
                            THEN same_window \cup {symbol}
                            ELSE same_window \ {symbol}
          /\ IF df = <<>>
             THEN UNCHANGED <<candle_frames, frame_order>>
             ELSE /\ candle_frames' = Put(candle_frames, symbol, df)
                  /\ frame_order' = IF symbol \in DOMAIN candle_frames THEN frame_order
                                    ELSE Append(frame_order, symbol)
  /\ idx' = idx + 1
  /\ UNCHANGED <<now, ohlcv_data, signals, trades, settings, universe_daily, breaker, clock, pc, universe, last_processed,
                 risk_rules, adaptive_state, open_by_symbol, clusters, create_order_calls,
                 crashed, call>>

\* line 261 when the exchange call of sync_candles raises (RateLimitGuard.run
\* re-raises after its last retry, rate_limit.py lines 62-63): the loop over
\* the universe has no handler, the exception leaves run_live
IngestFails ==
  /\ pc = "ingest" /\ ~crashed
  /\ idx <= Len(universe)
  /\ crashed' = TRUE
  /\ UNCHANGED <<now, ohlcv_data, candles, signals, trades, settings, universe_daily, breaker, clock, pc, idx, universe,
                 last_processed, risk_rules, adaptive_state, open_by_symbol, candle_frames,
                 frame_order, clusters, create_order_calls, same_window, call>>

\* lines 276-280: the cluster map over the symbols that have a frame; which
\* pairs correlate above the threshold is an input
BuildClusters ==
  /\ pc = "ingest" /\ ~crashed
  /\ idx > Len(universe)
  /\ IF Len(frame_order) >= 2
     THEN \E above \in SUBSET {<<frame_order[i], frame_order[j]>> :
                                 i \in 1..Len(frame_order), j \in 1..Len(frame_order)} :
            /\ \A pr \in above : \E i, j \in 1..Len(frame_order) :
                 i < j /\ pr = <<frame_order[i], frame_order[j]>>
            /\ clusters' = build_clusters(frame_order, above)
     ELSE clusters' = EmptyDict
  /\ pc' = "decide"
  /\ idx' = 1
  /\ UNCHANGED <<now, ohlcv_data, candles, signals, trades, settings, universe_daily, breaker, clock, universe,
                 last_processed, risk_rules, adaptive_state, open_by_symbol, candle_frames,
                 frame_order, create_order_calls, crashed, same_window, call>>

\* a closeout that writes the result of every simulated trade
always_close(trade_result) == TRUE

\* line 310: a trade is closed when the candle resolved it
should_close(trade_result) == trade_result.status # "OPEN"

\* a close that leaves the ledger's count of open positions as it was
write_close_keeping_count(st, trade, symbol, closed, pnl_r) ==
  IF ~closed.ok THEN [st EXCEPT !.failed = TRUE]
  ELSE [trades |-> closed.trades,
        risk_rules |-> apply_cooldown(register_trade_result(st.risk_rules, pnl_r), symbol),
        open_by_symbol |->
          IF SelectSeq(Get(st.open_by_symbol, symbol, <<>>), LAMBDA pos : pos.id # trade.id) = <<>>
          THEN Remove(st.open_by_symbol, symbol)
          ELSE Put(st.open_by_symbol, symbol,
                   SelectSeq(Get(st.open_by_symbol, symbol, <<>>),
                             LAMBDA pos : pos.id # trade.id)),
        failed |-> FALSE]

\* a close that starts no cooldown
write_close_without_cooldown(st, trade, symbol, closed, pnl_r) ==
  IF ~closed.ok THEN [st EXCEPT !.failed = TRUE]
  ELSE [trades |-> closed.trades,
        risk_rules |-> [register_trade_result(st.risk_rules, pnl_r)
                          EXCEPT !.positions_open = Max(0, st.risk_rules.positions_open - 1)],
        open_by_symbol |->
          IF SelectSeq(Get(st.open_by_symbol, symbol, <<>>), LAMBDA pos : pos.id # trade.id) = <<>>
          THEN Remove(st.open_by_symbol, symbol)
          ELSE Put(st.open_by_symbol, symbol,
                   SelectSeq(Get(st.open_by_symbol, symbol, <<>>),
                             LAMBDA pos : pos.id # trade.id)),
        failed |-> FALSE]

\* lines 311-332: the trade is written closed, the ledger and the index follow
write_close(st, trade, symbol, closed, pnl_r) ==
  IF ~closed.ok THEN [st EXCEPT !.failed = TRUE]
  ELSE [trades |-> closed.trades,
        risk_rules |-> [apply_cooldown(register_trade_result(st.risk_rules, pnl_r), symbol)
                          EXCEPT !.positions_open = Max(0, st.risk_rules.positions_open - 1)],
        open_by_symbol |->
          IF SelectSeq(Get(st.open_by_symbol, symbol, <<>>), LAMBDA pos : pos.id # trade.id) = <<>>
          THEN Remove(st.open_by_symbol, symbol)
          ELSE Put(st.open_by_symbol, symbol,
                   SelectSeq(Get(st.open_by_symbol, symbol, <<>>),
                             LAMBDA pos : pos.id # trade.id)),
        failed |-> FALSE]

\* lines 310-317: what the simulated result of one trade leads to
close_resolved(st, trade, symbol, candle, trade_result) ==
  IF ~should_close(trade_result) THEN st
  ELSE write_close(st, trade, symbol,
                   close_trade(st.trades, trade.id, trade_result.exit_price,
                               candle.close_time_ms, trade_result.pnl_pct, trade_result.status),
                   (trade_result.pnl_pct * 100) \div risk_per_trade_pct)

\* lines 299-332 for one open trade of the symbol.  st carries the tables and
\* the ledger through the loop; failed = close_trade raised.
closeout_one(st, trade, symbol, candle, cfg) ==
  IF st.failed THEN st
  ELSE close_resolved(st, trade, symbol, candle,
                      simulate_trade(trade.direction, trade.entry_price, trade.stop_price,
                                     trade.take_price, candle.high, candle.low,
                                     cfg.worst_case_same_candle))

\* line 299: the trades the closeout loop visits
closeout_targets(index, symbol) == Get(index, symbol, <<>>)

RECURSIVE closeout(_, _, _, _, _)
closeout(st, todo, symbol, candle, cfg) ==
  IF todo = <<>> THEN st
  ELSE closeout(closeout_one(st, Head(todo), symbol, candle, cfg), Tail(todo),
                symbol, candle, cfg)

\* the skip of line 286 left out
never_processed(cursor, symbol, latest_closed) == FALSE

\* line 286: the symbol's latest closed candle was decided on already
already_processed(cursor, symbol, latest_closed) == Get(cursor, symbol, None) = latest_closed

\* lines 380-389: the cluster cap blocks the open
cluster_blocked(cmap, index, symbol) ==
  LET cluster_id == Get(cmap, symbol, None)
      cluster_positions == Cardinality({sym \in DOMAIN index : Get(cmap, sym, None) = cluster_id})
  IN cluster_id # None /\ cluster_positions >= max_positions_per_cluster

\* an open step that sends the order when a real-trades flag is set
orders_sent_when_real(cfg, direction) == IF cfg.execute_real_trades THEN 1 ELSE 0

\* calls of exchange.create_order the open step makes: none, whatever the
\* real-trades flags say (lines 212-213 only log a warning)
orders_sent(cfg, direction) == 0

\* what a pass that skips the symbol leaves behind: nothing changes
skipped ==
  [last_processed |-> last_processed, trades |-> trades, signals |-> signals,
   risk_rules |-> risk_rules, open_by_symbol |-> open_by_symbol,
   adaptive_state |-> adaptive_state, create_order_calls |-> create_order_calls,
   crashed |-> FALSE, signalled |-> FALSE, opened |-> FALSE]

\* an open step that writes the trade against the first signal of the table
write_open_first_signal(symbol, st, direction, entry_price, stops, adjusted, signal_id, after_signal) ==
  [after_signal EXCEPT
     !.trades = open_trade(st.trades, 1, direction, entry_price, stops.stop, stops.take,
                           position_size(paper_equity, adjusted.risk, entry_price, stops.stop).qty),
     !.adaptive_state = adjusted.state,
     !.risk_rules = [st.risk_rules EXCEPT !.positions_open = st.risk_rules.positions_open + 1],
     !.open_by_symbol =
        Put(st.open_by_symbol, symbol,
            Append(Get(st.open_by_symbol, symbol, <<>>),
                   [id |-> Len(st.trades) + 1, symbol |-> symbol, direction |-> direction,
                    entry_price |-> entry_price, stop_price |-> stops.stop,
                    take_price |-> stops.take])),
     !.create_order_calls = create_order_calls + orders_sent(settings, direction),
     !.opened = TRUE]

\* lines 409-434: the trade is stored and the ledger and the index follow
write_open(symbol, st, direction, entry_price, stops, adjusted, signal_id, after_signal) ==
  [after_signal EXCEPT
     !.trades = open_trade(st.trades, signal_id, direction, entry_price, stops.stop, stops.take,
                           position_size(paper_equity, adjusted.risk, entry_price, stops.stop).qty),
     !.adaptive_state = adjusted.state,
     !.risk_rules = [st.risk_rules EXCEPT !.positions_open = st.risk_rules.positions_open + 1],
     !.open_by_symbol =
        Put(st.open_by_symbol, symbol,
            Append(Get(st.open_by_symbol, symbol, <<>>),
                   [id |-> Len(st.trades) + 1, symbol |-> symbol, direction |-> direction,
                    entry_price |-> entry_price, stop_price |-> stops.stop,
                    take_price |-> stops.take])),
     !.create_order_calls = create_order_calls + orders_sent(settings, direction),
     !.opened = TRUE]

\* lines 400-408: stops from the ATR, risk from the adaptive state
open_step(symbol, st, direction, entry_price, atr_value, signal_id, after_signal) ==
  write_open(symbol, st, direction, entry_price,
             atr_stops(entry_price, atr_value, direction, stop_atr_mult, take_atr_mult),
             adjust_risk(risk_per_trade_pct, adaptive_state), signal_id, after_signal)

\* gates that do not look for an open position on the symbol
gates_without_position_check(symbol, candle, next_candle, st, decision, atr_value, signal_id, after_signal) ==
  IF decision.direction = "NONE" THEN after_signal
  ELSE IF ~can_open(st.risk_rules, symbol) THEN after_signal
  ELSE IF cluster_blocked(clusters, st.open_by_symbol, symbol) THEN after_signal
  ELSE IF settings.entry_on = "next_open" /\ next_candle = <<>> THEN after_signal
  ELSE open_step(symbol, st, decision.direction,
                 IF settings.entry_on = "next_open" THEN next_candle[1].open ELSE candle.close,
                 atr_value, signal_id, after_signal)

\* lines 369-398: the gates between the stored signal and the open step
gates(symbol, candle, next_candle, st, decision, atr_value, signal_id, after_signal) ==
  IF decision.direction = "NONE" THEN after_signal
  ELSE IF symbol \in DOMAIN st.open_by_symbol THEN after_signal
  ELSE IF ~can_open(st.risk_rules, symbol) THEN after_signal
  ELSE IF cluster_blocked(clusters, st.open_by_symbol, symbol) THEN after_signal
  ELSE IF settings.entry_on = "next_open" /\ next_candle = <<>> THEN after_signal
  ELSE open_step(symbol, st, decision.direction,
                 IF settings.entry_on = "next_open" THEN next_candle[1].open ELSE candle.close,
                 atr_value, signal_id, after_signal)

\* lines 352-367: the signal is stored, whatever the direction
signal_step(symbol, candle, next_candle, st, decision, atr_value, sigs) ==
  gates(symbol, candle, next_candle, st, decision, atr_value, Len(sigs),
        [skipped EXCEPT !.last_processed = Put(last_processed, symbol, candle.open_time_ms),
                        !.trades = st.trades, !.signals = sigs,
                        !.risk_rules = st.risk_rules,
                        !.open_by_symbol = st.open_by_symbol, !.signalled = TRUE])

\* lines 334-350 after the closeout loop: regime, BTC state and score are the
\* inputs ctx, the strategies' verdicts raw, the ATR atr_value
after_closeout(symbol, candle, next_candle, st, ctx, raw, atr_value) ==
  IF st.failed \/ detect_btc_state_raises(btc_df)
  THEN [skipped EXCEPT !.last_processed = Put(last_processed, symbol, candle.open_time_ms),
                       !.trades = st.trades, !.risk_rules = st.risk_rules,
                       !.open_by_symbol = st.open_by_symbol, !.crashed = TRUE]
  ELSE signal_step(symbol, candle, next_candle, st,
                   ensemble(StrategyNames, strategy_votes(raw, atr_value, candle.close),
                            ctx[1], ctx[2], ctx[3], candle.close),
                   atr_value,
                   store_signal(signals, symbol, candle.close_time_ms,
                                ensemble(StrategyNames,
                                         strategy_votes(raw, atr_value, candle.close),
                                         ctx[1], ctx[2], ctx[3], candle.close).direction,
                                candle.close))

\* lines 295-332: the cursor moves to the candle and its open trades are run
\* against it
decide_candle(symbol, candle, next_candle, ctx, raw, atr_value) ==
  after_closeout(symbol, candle, next_candle,
                 closeout([trades |-> trades, risk_rules |-> risk_rules,
                           open_by_symbol |-> open_by_symbol, failed |-> FALSE],
                          closeout_targets(open_by_symbol, symbol), symbol, candle, settings),
                 ctx, raw, atr_value)

\* lines 283-294: the skips, then the body; df[df.open_time_ms <= latest_closed]
\* is closed_df and df[df.open_time_ms > latest_closed] holds the next candle
with_latest_closed(symbol, df, latest_closed, ctx, raw, atr_value) ==
  IF latest_closed = None THEN skipped
  ELSE IF already_processed(last_processed, symbol, latest_closed) THEN skipped
  ELSE IF SelectSeq(df, LAMBDA r : r.open_time_ms <= latest_closed) = <<>> THEN skipped
  ELSE decide_candle(symbol,
                     df[Len(SelectSeq(df, LAMBDA r : r.open_time_ms <= latest_closed))],
                     SelectSeq(df, LAMBDA r : r.open_time_ms > latest_closed),
                     ctx, raw, atr_value)

\* lines 283-441 for one symbol.  The result holds the next value of every
\* variable the body writes; signalled/opened say how far the body got.
decide_symbol(symbol, ctx, raw, atr_value) ==
  with_latest_closed(symbol, candle_frames[symbol],
                     fetch_latest_closed_candle_open_time(candles[symbol], now_ms),
                     ctx, raw, atr_value)

\* the strategies' verdicts by name
votes_by_name(cast) ==
  [name \in Range(StrategyNames) |->
     cast[CHOOSE i \in 1..Len(StrategyNames) : StrategyNames[i] = name]]

\* the pass writes its result
decided(r) ==
  /\ last_processed' = r.last_processed
  /\ trades' = r.trades
  /\ signals' = r.signals
  /\ risk_rules' = r.risk_rules
  /\ open_by_symbol' = r.open_by_symbol
  /\ adaptive_state' = r.adaptive_state
  /\ create_order_calls' = r.create_order_calls
  /\ crashed' = r.crashed

\* the pass for this symbol would get past the skips of lines 283-294
has_unprocessed_candle(symbol) ==
  with_latest_closed(symbol, candle_frames[symbol],
                     fetch_latest_closed_candle_open_time(candles[symbol], now_ms),
                     <<"CHAOTIC", "CHOP", 0>>, votes_by_name(<<"NONE", "NONE", "NONE">>), 0)
    # skipped

\* one pass of the loop at line 282; the run is followed until the signals
\* table holds MaxSignals rows
Decide ==
  /\ pc = "decide" /\ ~crashed
  /\ idx <= Len(frame_order)
  /\ Len(signals) < MaxSignals \/ ~has_unprocessed_candle(frame_order[idx])
  /\ \E inp \in DecisionInputs :
       decided(decide_symbol(frame_order[idx], inp[1], votes_by_name(inp[2]), inp[3]))
  /\ idx' = idx + 1
  /\ UNCHANGED <<now, ohlcv_data, candles, settings, universe_daily, breaker, clock, pc, universe, candle_frames,
                 frame_order, clusters, same_window, call>>

\* lines 443-449: tick, then sleep until the next cycle.  The locals of the
\* finished cycle (universe, index, frames, cluster map) are dead: the next
\* cycle assigns each of them before it reads it.
Tick ==
  /\ pc = "decide" /\ ~crashed
  /\ idx > Len(frame_order)
  /\ risk_rules' = tick(risk_rules)
  /\ pc' = "start"
  /\ idx' = 1
  /\ universe' = <<>>
  /\ open_by_symbol' = EmptyDict
  /\ candle_frames' = EmptyDict
  /\ frame_order' = <<>>
  /\ clusters' = EmptyDict
  /\ same_window' = {}
  /\ UNCHANGED <<now, ohlcv_data, candles, signals, trades, settings, universe_daily, breaker, clock, last_processed,
                 adaptive_state, create_order_calls, crashed, call>>

\* ------------------------------------------------------------ properties

\* the symbol of a trade: trades_simulated has no symbol column, the signal has
trade_symbol(t) == signals[t.signal_id].symbol

\* the decision step is about to run for this symbol
deciding(symbol) == pc = "decide" /\ ~crashed /\ idx <= Len(frame_order) /\ frame_order[idx] = symbol

\* the symbol's latest closed candle is the one its cursor names
at_cursor(symbol) ==
  LET latest_closed == fetch_latest_closed_candle_open_time(candles[symbol], now_ms)
  IN latest_closed # None /\ Get(last_processed, symbol, None) = latest_closed

\* C1: over any sequence of cycles of one run, at most one signal row is
\* stored per (symbol, timeframe, signal_time_ms), and the decision step of a
\* symbol whose latest closed candle equals last_processed[symbol] stores no
\* signal.
C1_AtMostOneSignalPerCandle ==
  [][/\ \A i, j \in 1..Len(signals') :
          (signals'[i].symbol = signals'[j].symbol
           /\ signals'[i].signal_time_ms = signals'[j].signal_time_ms) => i = j
     /\ \A symbol \in Symbols :
          (deciding(symbol) /\ at_cursor(symbol)) => signals' = signals]_vars

\* C1 witness: a later cycle reaches the decision step of a symbol whose
\* latest closed candle already has its signal.
C1_Witness ==
  \E symbol \in Symbols :
     /\ deciding(symbol) /\ at_cursor(symbol)
     /\ \E i \in 1..Len(signals) :
          /\ signals[i].symbol = symbol
          /\ signals[i].signal_time_ms = last_processed[symbol] + close_delta

\* C2: closeout precedes open: when a trade on X has resolved (STOP or TAKE)
\* on candle C, every trade on X opened afterwards is opened against a candle
\* that opens after C, i.e. its signal is later than the exit of the resolved
\* trade.
C2_CloseoutPrecedesOpen ==
  \A i, j \in 1..Len(trades) :
     (i < j /\ trades[i].status # "OPEN" /\ trade_symbol(trades[i]) = trade_symbol(trades[j]))
       => signals[trades[j].signal_id].signal_time_ms > trades[i].exit_time_ms

\* C4: run_live never invokes exchange.create_order, whatever the decision
\* and whatever the real-trades flags say.
C4_NoRealOrders == create_order_calls = 0

\* C4 witness: a paper trade was opened while execute_real_trades is set.
C4_Witness == settings.execute_real_trades /\ trades # <<>>

\* the open trades whose symbol has this cluster id in the cycle's map
open_in_cluster(cluster_id) ==
  {i \in 1..Len(trades) : /\ trades[i].status = "OPEN"
                          /\ Get(clusters, trade_symbol(trades[i]), None) = cluster_id}

\* C5: during the decision phase of a cycle no more than
\* max_positions_per_cluster open trades share a cluster id of that cycle's
\* cluster map.
C5_ClusterCap ==
  (pc = "decide") =>
     \A symbol \in DOMAIN clusters :
        Cardinality(open_in_cluster(clusters[symbol])) <= max_positions_per_cluster

\* C6: every trade run_live opens has stop_price < entry_price < take_price
\* when LONG and take_price < entry_price < stop_price when SHORT.
C6_StopTakeOrientation ==
  \A i \in 1..Len(trades) :
     /\ trades[i].direction = "LONG" =>
          (trades[i].stop_price < trades[i].entry_price
           /\ trades[i].entry_price < trades[i].take_price)
     /\ trades[i].direction = "SHORT" =>
          (trades[i].take_price < trades[i].entry_price
           /\ trades[i].entry_price < trades[i].stop_price)

\* C6 witness: the loop has opened a LONG and a SHORT trade.
C6_Witness ==
  /\ \E i \in 1..Len(trades) : trades[i].direction = "LONG"
  /\ \E i \in 1..Len(trades) : trades[i].direction = "SHORT"

\* the symbol's latest closed candle has not been decided on
fresh(symbol) ==
  LET latest_closed == fetch_latest_closed_candle_open_time(candles[symbol], now_ms)
  IN latest_closed # None /\ Get(last_processed, symbol, None) # latest_closed

\* C8: ingestion is idempotent: syncing the same fetched window again leaves
\* the candles table as the first sync left it, and the decision step of a
\* cycle that re-ingested an unchanged window of the symbol stores no signal.
C8_IdempotentIngestion ==
  [][/\ \A symbol \in Symbols :
          LET raw == fetch_ohlcv(symbol, candle_limit)
              once == sync_candles(candles[symbol], raw).table
          IN sync_candles(once, raw).table = once
     /\ \A symbol \in Symbols :
          (deciding(symbol) /\ symbol \in same_window) => signals' = signals]_vars

\* a trade row went from OPEN to STOP or TAKE, its entry untouched
closed_by_step(before, after) ==
  /\ before.status = "OPEN"
  /\ after.status \in {"STOP", "TAKE"}
  /\ after = [before EXCEPT !.status = after.status, !.exit_price = after.exit_price,
                            !.exit_time_ms = after.exit_time_ms, !.pnl_pct = after.pnl_pct]

C10_TradeStatus ==
  [][/\ Len(trades') >= Len(trades)
     /\ \A i \in 1..Len(trades) :
          trades'[i] = trades[i] \/ closed_by_step(trades[i], trades'[i])
     /\ \A i \in 1..Len(trades') :
          /\ trades'[i].status \in {"OPEN", "STOP", "TAKE"}
          /\ trades'[i].status = "OPEN" =>
               (trades'[i].exit_time_ms = NULL /\ trades'[i].exit_price = NULL
                /\ trades'[i].pnl_pct = NULL)
          /\ trades'[i].status # "OPEN" =>
               /\ trades'[i].exit_time_ms # NULL /\ trades'[i].exit_price # NULL
               /\ trades'[i].pnl_pct # NULL
               /\ ~close_trade(trades', i, trades'[i].stop_price, now_ms, 0, "STOP").ok]_vars

\* C10 witness: a cycle after the one that closed a trade reaches the decision
\* step of the trade's symbol.
C10_Witness ==
  \E i \in 1..Len(trades) :
     /\ trades[i].status \in {"STOP", "TAKE"}
     /\ deciding(trade_symbol(trades[i]))
     /\ at_cursor(trade_symbol(trades[i]))

\* line 295: the candle the decision step of the symbol runs against, the last
\* row of its frame at or before the latest closed candle
decision_candle(symbol) ==
  LET latest_closed == fetch_latest_closed_candle_open_time(candles[symbol], now_ms)
      closed_df == SelectSeq(candle_frames[symbol], LAMBDA r : r.open_time_ms <= latest_closed)
  IN closed_df[Len(closed_df)]

\* the candle reaches the stop or the take of the trade
hits(trade, candle) ==
  IF trade.direction = "LONG"
  THEN candle.low <= trade.stop_price \/ candle.high >= trade.take_price
  ELSE candle.high >= trade.stop_price \/ candle.low <= trade.take_price

\* C11: while kill_switch is true run_live opens no trade, but closeouts go
\* on: the decision step of a symbol with a newly closed candle still closes
\* every open trade of the symbol whose stop or take that candle hits.
C11_KillSwitchSilencesOpensOnly ==
  [][/\ (risk_rules.kill_switch \/ risk_rules'.kill_switch) => Len(trades') = Len(trades)
     /\ \A symbol \in Symbols : \A i \in 1..Len(trades) :
          (/\ risk_rules.kill_switch
           /\ deciding(symbol) /\ fresh(symbol) /\ idx' = idx + 1
           /\ trades[i].status = "OPEN" /\ trade_symbol(trades[i]) = symbol
           /\ hits(trades[i], decision_candle(symbol)))
            => /\ trades'[i].status \in {"STOP", "TAKE"}
               /\ trades'[i].exit_time_ms = decision_candle(symbol).close_time_ms]_vars

\* a loss that alone takes the ledger to max_daily_loss_r
switch_loss(t) == t.status = "STOP" /\ (t.pnl_pct * 100) \div risk_per_trade_pct <= 0 - max_daily_loss_r

\* the directional signal stored with the close of the trade opened no trade
open_blocked_at_close(t) ==
  \E k \in 1..Len(signals) :
     /\ signals[k].symbol = trade_symbol(t) /\ signals[k].signal_time_ms = t.exit_time_ms
     /\ signals[k].type # "NONE"
     /\ \A j \in 1..Len(trades) : trades[j].signal_id # k

\* C11 witness: two trades were stopped out, each with a loss that alone sets
\* the kill switch, so the second was closed while the switch was on; the
\* directional signals stored with both closes opened nothing.
C11_Witness ==
  /\ risk_rules.kill_switch
  /\ \E i, j \in 1..Len(trades) :
       /\ i # j /\ switch_loss(trades[i]) /\ switch_loss(trades[j])
       /\ open_blocked_at_close(trades[i]) /\ open_blocked_at_close(trades[j])

\* the step that ends a cycle (lines 443-449)
cycle_ends == pc = "decide" /\ pc' = "start"

\* C12: ledger.tick() runs exactly once per cycle, after the decision pass of
\* every universe symbol of that cycle, and each tick lowers every cooldown
\* counter by 1 with floor 0.  The phases of a cycle follow each other in one
\* order, the step that ends the cycle is the tick, and no other step lowers a
\* cooldown.
C12_TickOncePerCycle ==
  [][/\ pc' # pc => <<pc, pc'>> \in {<<"start", "ingest">>, <<"ingest", "decide">>,
                                      <<"decide", "start">>}
     /\ cycle_ends =>
          /\ idx > Len(frame_order)
          /\ \A symbol \in Range(universe) :
               candles[symbol] # <<>> => symbol \in Range(frame_order)
          /\ DOMAIN risk_rules'.cooldowns = DOMAIN risk_rules.cooldowns
          /\ \A symbol \in DOMAIN risk_rules.cooldowns :
               /\ risk_rules'.cooldowns[symbol] >= 0
               /\ risk_rules'.cooldowns[symbol] =
                    (IF risk_rules.cooldowns[symbol] >= 1
                     THEN risk_rules.cooldowns[symbol] - 1 ELSE 0)
          /\ risk_rules' = [risk_rules EXCEPT !.cooldowns = risk_rules'.cooldowns]
     /\ ~cycle_ends =>
          \A symbol \in DOMAIN risk_rules.cooldowns :
             /\ symbol \in DOMAIN risk_rules'.cooldowns
             /\ risk_rules'.cooldowns[symbol] \in
                  {risk_rules.cooldowns[symbol], risk_rules.cooldown_candles}]_vars

\* C12 witness: with cooldown_candles = 2 a cycle has just ended and a cooldown
\* stands at 0: two ticks have counted it down.
C12_Witness ==
  /\ settings.cooldown_candles = 2 /\ pc = "start"
  /\ \E symbol \in DOMAIN risk_rules.cooldowns : risk_rules.cooldowns[symbol] = 0

\* C13: a run_live cycle in which no universe symbol has a new closed candle
\* emits no signal, opens and closes no trade and leaves the risk ledger
\* unchanged except for the effect of tick(): every step other than the
\* decision pass of a symbol with an unprocessed closed candle leaves the
\* signals, the trades, the cursor and the ledger as they are, but for the
\* cooldowns the cycle's last step counts down.
C13_QuietCycle ==
  [][(~ \E symbol \in Symbols : deciding(symbol) /\ fresh(symbol)) =>
        /\ signals' = signals
        /\ trades' = trades
        /\ last_processed' = last_processed
        /\ risk_rules'.daily_loss_r = risk_rules.daily_loss_r
        /\ risk_rules'.kill_switch = risk_rules.kill_switch
        /\ risk_rules'.positions_open = risk_rules.positions_open
        /\ DOMAIN risk_rules'.cooldowns = DOMAIN risk_rules.cooldowns
        /\ \A symbol \in DOMAIN risk_rules.cooldowns :
             risk_rules'.cooldowns[symbol] =
               (IF cycle_ends THEN Max(0, risk_rules.cooldowns[symbol] - 1)
                ELSE risk_rules.cooldowns[symbol])]_vars

\* C13 witness: a second cycle has gone through every symbol while no candle
\* closed since the first one, with a trade open.
C13_Witness ==
  /\ now = 1 /\ pc = "decide" /\ idx > Len(frame_order)
  /\ same_window = Symbols
  /\ \A symbol \in Symbols : at_cursor(symbol)
  /\ \E i \in 1..Len(trades) : trades[i].status = "OPEN"
  /\ risk_rules.positions_open >= 1

\* C14: if ingestion of one universe symbol fails with a fatal error during a
\* cycle, run_live skips that symbol and continues the cycle with the
\* remaining symbols: the ingestion loop is never left by an exception.
C14_IngestFailureSkipsSymbol == (pc = "ingest") => ~crashed

\* the ids of the trades the store holds as OPEN
open_ids == {i \in 1..Len(trades) : trades[i].status = "OPEN"}

\* the ids of the trades the open-position index holds under the symbol
indexed_ids(symbol) ==
  {Get(open_by_symbol, symbol, <<>>)[k].id : k \in 1..Len(Get(open_by_symbol, symbol, <<>>))}

\* C21: at every point between two symbols' decisions in a cycle,
\* ledger.positions_open equals the number of trades with status OPEN in the
\* store and the open-position index holds exactly those trades, each under
\* its symbol and with no empty entry; positions_open is never negative.
C21_PositionsConsistent ==
  /\ risk_rules.positions_open >= 0
  /\ (pc = "decide") =>
       /\ risk_rules.positions_open = Cardinality(open_ids)
       /\ UNION {indexed_ids(symbol) : symbol \in DOMAIN open_by_symbol} = open_ids
       /\ \A symbol \in DOMAIN open_by_symbol :
            /\ open_by_symbol[symbol] # <<>>
            /\ \A i \in indexed_ids(symbol) : trade_symbol(trades[i]) = symbol

\* C21 witness: between the passes of the two symbols one trade has been
\* closed and another is open.
C21_Witness ==
  /\ pc = "decide" /\ ~crashed /\ idx = 2 /\ Len(frame_order) = 2
  /\ \E i \in 1..Len(trades) :
       /\ trades[i].status \in {"STOP", "TAKE"}
       /\ trades[i].exit_time_ms = now_ms
       /\ trade_symbol(trades[i]) = frame_order[1]
  /\ open_ids # {}

\* C23: at most one trade with status OPEN exists per symbol at any time:
\* run_live never opens a trade on a symbol that still has an open position.
C23_OnePositionPerSymbol ==
  \A i, j \in open_ids : trade_symbol(trades[i]) = trade_symbol(trades[j]) => i = j

\* C23 witness: a directional signal on a symbol whose trade is still open,
\* with a free slot, no cooldown and the switch off, opened nothing.
C23_Witness ==
  /\ pc = "decide" /\ ~crashed /\ signals # <<>>
  /\ risk_rules.positions_open < risk_rules.max_positions
  /\ ~risk_rules.kill_switch
  /\ LET signal == signals[Len(signals)]
     IN /\ signal.type # "NONE"
        /\ signal.signal_time_ms = now_ms
        /\ Get(risk_rules.cooldowns, signal.symbol, 0) = 0
        /\ \A i \in 1..Len(trades) : trades[i].signal_id # Len(signals)
        /\ \E i \in open_ids : trade_symbol(trades[i]) = signal.symbol

\* C26: a pass that closes a trade on X registers pnl_pct /
\* risk_per_trade_pct with the ledger (a loss is added to daily_loss_r and
\* may set the kill switch), sets cooldowns[X] = cooldown_candles, lowers
\* positions_open by one and takes the trade out of the index; with
\* cooldown_candles > 0 the pass, the only one of X in the cycle, opens no
\* trade on X.
C26_CloseUpdatesLedger ==
  [][\A i \in 1..Len(trades) :
       (trades[i].status = "OPEN" /\ trades'[i].status # "OPEN") =>
         LET symbol == trade_symbol(trades[i])
             pnl_r == (trades'[i].pnl_pct * 100) \div risk_per_trade_pct
             opened == Len(trades') - Len(trades)
         IN /\ risk_rules'.daily_loss_r = risk_rules.daily_loss_r + Min(0, pnl_r)
            /\ risk_rules'.kill_switch =
                 (risk_rules.kill_switch
                    \/ (pnl_r < 0 /\ Abs(risk_rules'.daily_loss_r) >= max_daily_loss_r))
            /\ symbol \in DOMAIN risk_rules'.cooldowns
            /\ risk_rules'.cooldowns[symbol] = settings.cooldown_candles
            /\ risk_rules'.positions_open = risk_rules.positions_open - 1 + opened
            /\ i \notin UNION {indexed_ids(sym)' : sym \in Symbols}
            /\ settings.cooldown_candles > 0 =>
                 \A j \in (Len(trades) + 1)..Len(trades') :
                    signals'[trades'[j].signal_id].symbol # symbol]_vars

\* C26 witness: a trade was closed in this cycle, its symbol is in cooldown,
\* and the directional signal of the same pass opened nothing although no
\* position is open and the switch is off.
C26_Witness ==
  /\ pc = "decide" /\ ~crashed /\ signals # <<>>
  /\ open_ids = {} /\ ~risk_rules.kill_switch
  /\ LET signal == signals[Len(signals)]
     IN /\ signal.type # "NONE"
        /\ signal.signal_time_ms = now_ms
        /\ Get(risk_rules.cooldowns, signal.symbol, 0) = settings.cooldown_candles
        /\ settings.cooldown_candles > 0
        /\ \A i \in 1..Len(trades) : trades[i].signal_id # Len(signals)
        /\ \E i \in 1..Len(trades) :
             /\ trade_symbol(trades[i]) = signal.symbol
             /\ trades[i].exit_time_ms = now_ms

\* C27: the candle a decision is based on is final: the open, high, low and
\* close the pass uses for candle C are those C closed with, also when C
\* closes between the ingest step of the cycle and the query for the latest
\* closed candle.
C27_DecisionOnFinalCandle ==
  [][\A symbol \in Symbols :
       (deciding(symbol) /\ fresh(symbol) /\ Len(signals') > Len(signals)) =>
          \E k \in 1..Len(ohlcv_data[symbol]) :
             candle_rows(ohlcv_data[symbol])[k] = decision_candle(symbol)]_vars

\* ------------------------------------------------------------ one position
\* run_live started with settings.risk.max_positions = 1 on two symbols

TightSettings == {[choice EXCEPT !.max_positions = 1] : choice \in SettingsChoices}

InitTight == BootWith("start", TightSettings)

NextTight == Advance \/ CycleStart \/ Ingest \/ IngestFails \/ BuildClusters \/ Decide \/ Tick

SpecTight == InitTight /\ [][NextTight]_vars

\* C22: the number of trades with status OPEN never exceeds max_positions,
\* and a pass opens a trade only when, at its open step, the ledger counted
\* fewer than max_positions open positions.
C22_PositionCap ==
  [][/\ Cardinality(open_ids') <= risk_rules'.max_positions
     /\ Len(trades') > Len(trades) =>
          /\ risk_rules'.positions_open - 1 < risk_rules.max_positions
          /\ risk_rules'.positions_open = Cardinality(open_ids')]_vars

\* C22 witness: a directional signal on a symbol that is free, out of
\* cooldown and not behind the kill switch opened nothing, because the
\* other symbol's trade fills the only slot.
C22_Witness ==
  /\ pc = "decide" /\ ~crashed /\ signals # <<>>
  /\ risk_rules.max_positions = 1 /\ risk_rules.positions_open = 1
  /\ ~risk_rules.kill_switch
  /\ LET signal == signals[Len(signals)]
     IN /\ signal.type # "NONE"
        /\ signal.signal_time_ms = now_ms
        /\ Get(risk_rules.cooldowns, signal.symbol, 0) = 0
        /\ \A i \in 1..Len(trades) : trades[i].signal_id # Len(signals)
        /\ \A i \in open_ids : trade_symbol(trades[i]) # signal.symbol

\* ------------------------------------------------------------ the loop

Next == Advance \/ CycleStart \/ Ingest \/ IngestFails \/ BuildClusters \/ Decide \/ Tick

Spec == Init /\ [][Next]_vars

\* ------------------------ the loop with or without BTC candles (C33)

InitAnyBtc == BootOn("start", SettingsChoices, BOOLEAN)

NextAnyBtc == Advance \/ CycleStart \/ Ingest \/ IngestFails \/ BuildClusters \/ Decide \/ Tick

SpecAnyBtc == InitAnyBtc /\ [][NextAnyBtc]_vars

\* C33: the live scheduler skips a symbol affected by an empty BTC frame
\* instead of failing the cycle: a pass of the decision loop that has no
\* trade to close and finds the BTC frame empty leaves run_live running.
C33_EmptyBtcFrameSkipsSymbol ==
  [][(pc = "decide" /\ ~crashed /\ trades = <<>> /\ btc_df = <<>>) => ~crashed']_vars

\* ------------------- the loop with candles closing while it sleeps (C20)

\* the exchange's candles of one symbol after the candles t, t+1, ... closed
\* with the given final shapes
RECURSIVE closed_with(_, _, _)
closed_with(data, t, shapes) ==
  IF shapes = <<>> THEN data
  ELSE closed_with(Append([data EXCEPT ![Len(data)] = raw_candle(t, Head(shapes))],
                          raw_candle(t + 1, Forming)),
                   t + 1, Tail(shapes))

\* line 449, time.sleep(loop_seconds): one or two candle periods end before
\* the next cycle starts
Sleep ==
  /\ pc = "start" /\ ~crashed
  /\ \E shapes \in {<<a>> : a \in Shapes} \cup {<<a, b>> : a \in Shapes, b \in Shapes} :
       /\ now + Len(shapes) <= MaxLagTime
       /\ now' = now + Len(shapes)
       /\ ohlcv_data' = [s \in DOMAIN ohlcv_data |->
                            IF ohlcv_data[s] = <<>> THEN <<>>
                            ELSE closed_with(ohlcv_data[s], now, shapes)]
  /\ clock' = clock + (now' - now) * (close_delta \div 1000)
  /\ UNCHANGED <<candles, signals, trades, settings, universe_daily, breaker, pc, idx, universe, last_processed,
                 risk_rules, adaptive_state, open_by_symbol, candle_frames, frame_order,
                 clusters, create_order_calls, crashed, same_window, call>>

NextLag == Sleep \/ CycleStart \/ Ingest \/ BuildClusters \/ Decide \/ Tick

SpecLag == Init /\ [][NextLag]_vars

\* the candles of the symbol, as the exchange published them, that have
\* closed and that opened at or after the signal time of the trade
closed_since_open(t) ==
  LET published == candle_rows(ohlcv_data[trade_symbol(t)])
  IN {published[k] : k \in {k \in 1..Len(published) :
                               /\ published[k].close_time_ms <= now_ms
                               /\ published[k].open_time_ms >= signals[t.signal_id].signal_time_ms}}

\* C20: every OPEN trade is checked against every candle of its symbol that
\* closes after it was opened, so that a candle hitting its stop or take gets
\* it closed, also when more than one candle closes between two cycles: no
\* trade is OPEN while the cursor of its symbol has moved to or past a closed
\* candle that hits it.
C20_EveryClosedCandleChecked ==
  \A i \in 1..Len(trades) :
     trades[i].status = "OPEN" =>
        \A candle \in closed_since_open(trades[i]) :
           hits(trades[i], candle) =>
              Get(last_processed, trade_symbol(trades[i]), None) < candle.open_time_ms

\* ------------------------------------------------------------ one symbol
\* run_live started on a single symbol: fewer than two frames, so no cluster
\* map is built (line 277) and the cluster gate lets every symbol through

SoloSettings == {[choice EXCEPT !.symbols = <<"A">>] : choice \in SettingsChoices}

InitSolo == BootWith("start", SoloSettings)

NextSolo == Sleep \/ CycleStart \/ Ingest \/ IngestFails \/ BuildClusters \/ Decide \/ Tick

SpecSolo == InitSolo /\ [][NextSolo]_vars

\* C24: the cooldown is a countdown in candles of the symbol: after a trade
\* on X is closed by candle C, no new trade on X is opened before
\* cooldown_candles further candles of X have closed, that is on a signal
\* earlier than cooldown_candles candle periods after the exit.
C24_CooldownCountsCandles ==
  \A i, j \in 1..Len(trades) :
     (/\ i < j
      /\ trades[i].status \in {"STOP", "TAKE"}
      /\ trade_symbol(trades[i]) = trade_symbol(trades[j]))
     => signals[trades[j].signal_id].signal_time_ms
          >= trades[i].exit_time_ms + settings.cooldown_candles * close_delta

\* the closeouts since the last one that was not a loss; on one symbol the
\* trades are closed in the order of their ids
losing_closeouts ==
  LET closed_ids == {i \in 1..Len(trades) : trades[i].status \in {"STOP", "TAKE"}}
      gains == {i \in closed_ids : trades[i].pnl_pct >= 0}
  IN Cardinality({i \in closed_ids : \A g \in gains : i > g})

\* C25: in run_live the adaptive state follows the closeouts: losing_streak
\* is the number of consecutive losing closeouts, so that after three of them
\* the next trade is sized with half of risk_per_trade_pct.
C25_StreakFollowsCloseouts == adaptive_state.losing_streak = losing_closeouts

\* ------------------------------------------------------------ restarts
\* The process ends, between two cycles or on an exception, and run_live is
\* started again with the same settings on the same store: lines 204-228 run
\* again, the tables and the exchange are as they were.
Restart ==
  /\ pc = "start" \/ crashed
  /\ pc' = "start"
  /\ idx' = 1
  /\ universe' = <<>>
  /\ last_processed' = EmptyDict
  /\ risk_rules' = [NewRiskRules(settings.cooldown_candles)
                      EXCEPT !.max_positions = settings.max_positions]
  /\ adaptive_state' = NewAdaptiveState
  /\ open_by_symbol' = EmptyDict
  /\ candle_frames' = EmptyDict
  /\ frame_order' = <<>>
  /\ clusters' = EmptyDict
  /\ crashed' = FALSE
  /\ same_window' = {}
  /\ UNCHANGED <<now, ohlcv_data, candles, signals, trades, settings, universe_daily, breaker, clock, create_order_calls,
                 call>>

NextRestart == Sleep \/ CycleStart \/ Ingest \/ IngestFails \/ BuildClusters \/ Decide \/ Tick \/ Restart

SpecRestart == InitSolo /\ [][NextRestart]_vars

\* C28: a trade is never resolved against the candle that produced its
\* opening signal: every closed trade has an exit_time_ms strictly greater
\* than the signal_time_ms of the signal that opened it, also after cycles of
\* a restarted process on the same store.
C28_ExitAfterOpeningSignal ==
  \A i \in 1..Len(trades) :
     trades[i].status \in {"STOP", "TAKE"} =>
        trades[i].exit_time_ms > signals[trades[i].signal_id].signal_time_ms

\* ------------------------------------------ universe resolution (C32)
\* lines 234-244 of one cycle after another, with the days passing and the
\* process started again with other arguments on the same store

MaxDay == 1

\* 15m candles in a UTC day
candles_per_day == 86400000 \div close_delta

UniverseSettings ==
  {[cooldown_candles |-> 2, entry_on |-> "close", worst_case_same_candle |-> TRUE,
    execute_real_trades |-> FALSE, max_positions |-> max_positions,
    symbols |-> symbols, max_symbols |-> n,
    universe_max_symbols |-> max_symbols, manual_override |-> manual] :
     symbols \in {<<>>, <<"B", "A">>}, n \in {1, max_symbols},
     manual \in {<<>>, <<"B">>}}

InitUniverse == BootOn("universe", UniverseSettings, BOOLEAN)

\* the rest of the loop is at rest
UniverseFrame ==
  UNCHANGED <<breaker, clock, signals, trades, pc, idx, last_processed, risk_rules, adaptive_state,
              open_by_symbol, candle_frames, frame_order, clusters, create_order_calls,
              crashed, same_window>>

CallResolveUniverse ==
  /\ pc = "universe"
  /\ \E answer \in exchange_answers(settings) :
       LET resolved == cycle_universe(settings, universe_daily, today, candles, answer)
       IN /\ universe' = resolved.symbols
          /\ universe_daily' = resolved.universe_daily
          /\ candles' = resolved.candles
          /\ call' = [fn |-> "resolve_universe", day |-> today, before |-> universe_daily,
                      tables |-> candles, answer |-> answer, source |-> resolved.source]
  /\ UNCHANGED <<now, ohlcv_data, settings>>
  /\ UniverseFrame

\* a UTC day passes; the exchange holds the last closed candle of the new
\* time and the forming one
NextDay ==
  /\ pc = "universe" /\ today < MaxDay
  /\ now' = now + candles_per_day
  /\ \E shape \in Shapes :
       ohlcv_data' = [s \in DOMAIN ohlcv_data |->
                        IF ohlcv_data[s] = <<>> THEN <<>>
                        ELSE <<raw_candle(now' - 1, shape), raw_candle(now', Forming)>>]
  /\ clock' = clock + candles_per_day * (close_delta \div 1000)
  /\ UNCHANGED <<candles, settings, universe_daily, universe, call>>
  /\ UNCHANGED <<breaker, signals, trades, pc, idx, last_processed, risk_rules, adaptive_state,
                 open_by_symbol, candle_frames, frame_order, clusters, create_order_calls,
                 crashed, same_window>>

\* run_live is started again on the same store with other arguments
Relaunch ==
  /\ pc = "universe"
  /\ settings' \in UniverseSettings \ {settings}
  /\ universe' = <<>>
  /\ call' = NoCall
  /\ UNCHANGED <<now, ohlcv_data, candles, universe_daily>>
  /\ UniverseFrame

NextUniverse == CallResolveUniverse \/ NextDay \/ Relaunch

SpecUniverse == InitUniverse /\ [][NextUniverse]_vars

InitGuarded ==
  BootFrom("start", SettingsChoices, {TRUE},
           {NewCircuitBreaker, [failures |-> max_failures, opened_at |-> 0]})

NextGuarded ==
  Advance \/ CycleStart \/ CycleRaises \/ Ingest \/ IngestFails \/ BuildClusters \/ Decide \/ Tick

SpecGuarded == InitGuarded /\ [][NextGuarded]_vars

\* C34: when the guard refuses a call because the breaker is open, run_live
\* abandons the cycle and goes on with the next one: a cycle that starts
\* while the breaker is open does not end run_live.
C34_OpenBreakerIsTransient ==
  [][(pc = "start" /\ ~crashed /\ ~can_execute(breaker, clock).admitted) => ~crashed']_vars

\* ------------------------------------- RateLimitGuard on its own (C35)
\* RateLimitGuard.run called again and again with a function that fails or
\* returns, and time passing between the calls

MaxClock == 40

InitGuard == Boot("guard")

GuardFrame ==
  UNCHANGED <<now, ohlcv_data, candles, signals, trades, settings, universe_daily, universe,
              last_processed, risk_rules, adaptive_state, open_by_symbol, candle_frames,
              frame_order, clusters, create_order_calls, crashed, same_window>>

\* lines 48, 64-65: the sleep after the attempt, 1 s doubled each time
delay(attempt) == 2 ^ (attempt - 1)

\* the breaker is open at time t: it has opened and cooldown_seconds have
\* not passed since
is_open(b, t) == b.opened_at # None /\ t - b.opened_at < cooldown_seconds

\* lines 45-48: the entry of run; idx is the attempt of the loop at line 49
CallRun ==
  /\ pc = "guard"
  /\ breaker' = can_execute(breaker, clock).breaker
  /\ IF can_execute(breaker, clock).admitted
     THEN /\ pc' = "attempt" /\ idx' = 1
          /\ call' = [fn |-> "run", outcome |-> "admitted", attempt |-> 0,
                      before |-> breaker, at |-> clock]
     ELSE /\ pc' = "guard" /\ idx' = idx
          /\ call' = [fn |-> "run", outcome |-> "breaker_open", attempt |-> 0,
                      before |-> breaker, at |-> clock]
  /\ clock' = clock
  /\ GuardFrame

\* lines 50-65: one attempt, func is invoked and returns or raises
CallFunc ==
  /\ pc = "attempt"
  /\ \E ok \in BOOLEAN :
       IF ok
       THEN /\ breaker' = record_success(breaker)
            /\ pc' = "guard" /\ idx' = 1 /\ clock' = clock
            /\ call' = [fn |-> "func", outcome |-> "returned", attempt |-> idx,
                        before |-> breaker, at |-> clock]
       ELSE /\ breaker' = record_failure(breaker, clock)
            /\ IF idx = max_retries
               THEN /\ pc' = "guard" /\ idx' = 1 /\ clock' = clock
                    /\ call' = [fn |-> "func", outcome |-> "raised", attempt |-> idx,
                                before |-> breaker, at |-> clock]
               ELSE /\ clock + delay(idx) <= MaxClock
                    /\ pc' = "attempt" /\ idx' = idx + 1 /\ clock' = clock + delay(idx)
                    /\ call' = [fn |-> "func", outcome |-> "retry", attempt |-> idx,
                                before |-> breaker, at |-> clock]
  /\ GuardFrame

\* time passes between two calls of run
TimePasses ==
  /\ pc = "guard"
  /\ \E seconds \in {1, cooldown_seconds} :
       clock + seconds <= MaxClock /\ clock' = clock + seconds
  /\ UNCHANGED <<breaker, pc, idx, call>>
  /\ GuardFrame

NextGuard == CallRun \/ CallFunc \/ TimePasses

SpecGuard == InitGuard /\ [][NextGuard]_vars

\* C35: while the breaker is open (failures have reached max_failures and
\* cooldown_seconds have not passed since) RateLimitGuard never invokes the
\* wrapped function.
C35_OpenBreakerBlocksFunc ==
  (call.fn = "func") => ~is_open(call.before, call.at)

\* --------------------------------- the real executor on its own (C36)
\* execution/real.py and exchange/precision.py; quantities, prices and steps
\* are whole numbers of the smallest unit

MaxOrders == 2

\* _round_step: floor(value / step) * step, the value itself for step 0
round_step(value, step) == IF step = 0 THEN value ELSE (value \div step) * step

normalize_price(price, precision) == round_step(price, precision.tick_size)

normalize_qty(qty, precision) == round_step(qty, precision.step_size)

\* validate_order: the list of errors
validate_order(price, qty, precision) ==
  (IF qty < precision.min_qty THEN <<"min_qty">> ELSE <<>>)
    \o (IF price * qty < precision.min_notional THEN <<"min_notional">> ELSE <<>>)

\* an executor that validates the order as it was asked for
execute_trade_raw_validation(direction, qty, price, precision, enabled, dry_run) ==
  IF ~enabled THEN [status |-> "DISABLED", orders |-> <<>>]
  ELSE IF validate_order(price, qty, precision) # <<>>
  THEN [status |-> "REJECTED", orders |-> <<>>]
  ELSE IF dry_run THEN [status |-> "DRY_RUN", orders |-> <<>>]
  ELSE [status |-> "SUBMITTED",
        orders |-> <<[side |-> IF direction = "LONG" THEN "buy" ELSE "sell",
                      amount |-> normalize_qty(qty, precision),
                      price |-> normalize_price(price, precision)]>>]

\* execute_trade: the status returned and the orders handed to
\* exchange.create_order
execute_trade(direction, qty, price, precision, enabled, dry_run) ==
  IF ~enabled THEN [status |-> "DISABLED", orders |-> <<>>]
  ELSE IF validate_order(normalize_price(price, precision), normalize_qty(qty, precision),
                         precision) # <<>>
  THEN [status |-> "REJECTED", orders |-> <<>>]
  ELSE IF dry_run THEN [status |-> "DRY_RUN", orders |-> <<>>]
  ELSE [status |-> "SUBMITTED",
        orders |-> <<[side |-> IF direction = "LONG" THEN "buy" ELSE "sell",
                      amount |-> normalize_qty(qty, precision),
                      price |-> normalize_price(price, precision)]>>]

\* SymbolPrecision values: with and without steps, with and without a floor
\* on the notional
Precisions ==
  {[tick_size |-> tick_size, step_size |-> step_size, min_qty |-> 4,
    min_notional |-> min_notional] :
     tick_size \in {0, 5}, step_size \in {0, 4}, min_notional \in {0, 100}}

OrderQtys == {3, 5, 9}
OrderPrices == {12, 27}

InitExecution == Boot("execute")

CallExecuteTrade ==
  /\ pc = "execute" /\ create_order_calls < MaxOrders
  /\ \E direction \in {"LONG", "SHORT"}, qty \in OrderQtys, price \in OrderPrices,
        precision \in Precisions, enabled \in BOOLEAN, dry_run \in BOOLEAN :
       LET result == execute_trade(direction, qty, price, precision, enabled, dry_run)
       IN /\ call' = [fn |-> "execute_trade",
                      args |-> [direction |-> direction, qty |-> qty, price |-> price,
                                precision |-> precision, enabled |-> enabled,
                                dry_run |-> dry_run],
                      result |-> result, calls_before |-> create_order_calls]
          /\ create_order_calls' = create_order_calls + Len(result.orders)
  /\ UNCHANGED <<now, ohlcv_data, candles, signals, trades, settings, universe_daily, breaker, clock,
                 pc, idx, universe, last_processed, risk_rules, adaptive_state, open_by_symbol,
                 candle_frames, frame_order, clusters, crashed, same_window>>

NextExecution == CallExecuteTrade

SpecExecution == InitExecution /\ [][NextExecution]_vars

\* the largest multiple of the step that is not above the value
floored(value, step) ==
  IF step = 0 THEN value
  ELSE CHOOSE m \in 0..value : m % step = 0 /\ value - m < step

\* the order of the last call, normalised, passes validation
order_valid ==
  LET precision == call.args.precision
      norm_qty == floored(call.args.qty, precision.step_size)
      norm_price == floored(call.args.price, precision.tick_size)
  IN norm_qty >= precision.min_qty /\ norm_price * norm_qty >= precision.min_notional

\* C36: execute_trade invokes exchange.create_order only when enabled is
\* true, dry_run is false and the normalised order passes validation (qty >=
\* min_qty and price x qty >= min_notional), and then once; otherwise it
\* returns DISABLED, REJECTED or DRY_RUN without calling the exchange.
C36_OrderOnlyWhenValid ==
  (call.fn = "execute_trade") =>
    /\ create_order_calls - call.calls_before =
         (IF call.args.enabled /\ ~call.args.dry_run /\ order_valid THEN 1 ELSE 0)
    /\ call.result.status =
         (IF ~call.args.enabled THEN "DISABLED"
          ELSE IF ~order_valid THEN "REJECTED"
          ELSE IF call.args.dry_run THEN "DRY_RUN"
          ELSE "SUBMITTED")

\* an enabled live call whose order is valid as asked for but not once
\* normalised: it is rejected and the exchange is not called
C36_Witness ==
  /\ call.fn = "execute_trade"
  /\ call.args.enabled /\ ~call.args.dry_run
  /\ call.args.qty >= call.args.precision.min_qty
  /\ call.args.price * call.args.qty >= call.args.precision.min_notional
  /\ call.result.status = "REJECTED"
  /\ create_order_calls = call.calls_before

\* --------------------------- the Donchian breakout on its own (C39)
\* strategy/breakout_donchian.py and donchian of strategy/indicators.py; the
\* RSI and the ATR z-score come from the indicator library and are inputs

\* the Donchian window of the runs (settings: 20 candles)
donchian_period == 2

\* donchian(df, period) at the last row: the rolling max of high and min of
\* low over the last period rows, the last one included; NaN while the frame
\* is shorter than the window
donchian(df, period) ==
  IF Len(df) < period THEN [nan |-> TRUE, high |-> 0, low |-> 0]
  ELSE LET window == {df[i] : i \in (Len(df) - period + 1)..Len(df)}
       IN [nan |-> FALSE,
           high |-> CHOOSE h \in {r.high : r \in window} : \A r \in window : r.high <= h,
           low |-> CHOOSE l \in {r.low : r \in window} : \A r \in window : l <= r.low]

\* BreakoutDonchianStrategy.generate: the direction; a comparison with NaN
\* is false
breakout_donchian(df, period, rsi_val, spike) ==
  LET channel == donchian(df, period)
      latest == df[Len(df)]
  IN IF spike THEN "NONE"
     ELSE IF ~channel.nan /\ latest.close > channel.high /\ rsi_val >= 50 THEN "LONG"
     ELSE IF ~channel.nan /\ latest.close < channel.low /\ rsi_val <= 50 THEN "SHORT"
     ELSE "NONE"

\* candles with low <= close <= high over three price levels
BreakoutCandles ==
  {r \in [high : 1..3, low : 1..3, close : 1..3] : r.low <= r.close /\ r.close <= r.high}

\* the frames of one to donchian_period + 1 such candles
BreakoutFrames ==
  UNION {[1..n -> BreakoutCandles] : n \in 1..(donchian_period + 1)}

RsiValues == {49, 50, 51}

InitBreakout == Boot("breakout")

CallGenerate ==
  /\ pc = "breakout" /\ call = NoCall
  /\ \E df \in BreakoutFrames, rsi_val \in RsiValues, spike \in BOOLEAN :
       call' = [fn |-> "generate", df |-> df, rsi |-> rsi_val, spike |-> spike,
                direction |-> breakout_donchian(df, donchian_period, rsi_val, spike)]
  /\ UNCHANGED <<now, ohlcv_data, candles, signals, trades, settings, universe_daily, breaker, clock,
                 pc, idx, universe, last_processed, risk_rules, adaptive_state, open_by_symbol,
                 candle_frames, frame_order, clusters, create_order_calls, crashed, same_window>>

NextBreakout == CallGenerate

SpecBreakout == InitBreakout /\ [][NextBreakout]_vars

\* C39: BreakoutDonchianStrategy can return a directional verdict: there is
\* a series of candles with low <= close <= high for which it returns LONG
\* (close above the Donchian high with RSI >= 50), and one for which it
\* returns SHORT.
C39_BreakoutCanBeDirectional ==
  (call.fn = "generate") =>
    /\ \E df \in BreakoutFrames, rsi_val \in RsiValues :
         breakout_donchian(df, donchian_period, rsi_val, FALSE) = "LONG"
    /\ \E df \in BreakoutFrames, rsi_val \in RsiValues :
         breakout_donchian(df, donchian_period, rsi_val, FALSE) = "SHORT"

\* what holds instead: every call on such a series answers NONE
BreakoutNeverDirectional == (call.fn = "generate") => call.direction = "NONE"

\* ------------------------------------------- the ledger on its own (C3)

\* results a closed trade may register, in hundredths of R
PnlResults == {-360, -120, 0, 180, 540}

InitLedger == Boot("ledger")

\* the program around the ledger is at rest
LedgerFrame ==
  UNCHANGED <<now, ohlcv_data, candles, signals, trades, settings, universe_daily, breaker, clock, pc, idx, universe,
              last_processed, adaptive_state, open_by_symbol, candle_frames, frame_order,
              clusters, create_order_calls, crashed, same_window>>

Calls == IF call = NoCall THEN 0 ELSE call.n

LedgerRegister ==
  /\ pc = "ledger" /\ Calls < MaxResults
  /\ \E pnl_r \in PnlResults :
       /\ risk_rules' = register_trade_result(risk_rules, pnl_r)
       /\ call' = [fn |-> "register_trade_result", pnl_r |-> pnl_r, n |-> Calls + 1]
  /\ LedgerFrame

LedgerCooldown ==
  /\ pc = "ledger" /\ Calls < MaxResults
  /\ \E symbol \in Symbols :
       /\ risk_rules' = apply_cooldown(risk_rules, symbol)
       /\ call' = [fn |-> "apply_cooldown", symbol |-> symbol, n |-> Calls + 1]
  /\ LedgerFrame

LedgerTick ==
  /\ pc = "ledger" /\ Calls < MaxResults
  /\ risk_rules' = tick(risk_rules)
  /\ call' = [fn |-> "tick", n |-> Calls + 1]
  /\ LedgerFrame

\* run_live's own writes to positions_open (lines 256, 321, 424)
LedgerPositions ==
  /\ pc = "ledger" /\ Calls < MaxResults
  /\ \E n \in 0..max_positions :
       /\ n # risk_rules.positions_open
       /\ risk_rules' = [risk_rules EXCEPT !.positions_open = n]
  /\ call' = [fn |-> "positions_open", n |-> Calls + 1]
  /\ LedgerFrame

NextLedger == LedgerRegister \/ LedgerCooldown \/ LedgerTick \/ LedgerPositions

SpecLedger == InitLedger /\ [][NextLedger]_vars

\* C3: once register_trade_result has made |daily_loss_r| >= max_daily_loss_r
\* the kill switch is on, and once on it stays on and can_open is false for
\* every symbol, whatever register_trade_result (gains included),
\* apply_cooldown and tick calls follow.
C3_KillSwitchSticky ==
  [][/\ Abs(risk_rules'.daily_loss_r) >= 300 => risk_rules'.kill_switch
     /\ risk_rules.kill_switch =>
          /\ risk_rules'.kill_switch
          /\ \A symbol \in Symbols : ~can_open(risk_rules', symbol)]_vars

\* C3 witness: a gain is registered while the kill switch is on, with no
\* position open and no cooldown running.
C3_Witness ==
  /\ risk_rules.kill_switch
  /\ call.fn = "register_trade_result" /\ call.pnl_r > 0
  /\ risk_rules.positions_open = 0
  /\ \A symbol \in DOMAIN risk_rules.cooldowns : risk_rules.cooldowns[symbol] = 0

\* C29: in every ledger state reached by register_trade_result,
\* apply_cooldown and tick calls (and run_live's writes of positions_open),
\* can_open(symbol) is true exactly when the kill switch is off,
\* positions_open < max_positions and the symbol's cooldown, 0 when it has
\* none, is not above 0.
C29_CanOpen ==
  \A symbol \in Symbols :
     can_open(risk_rules, symbol) <=>
       /\ ~risk_rules.kill_switch
       /\ risk_rules.positions_open < risk_rules.max_positions
       /\ (IF symbol \in DOMAIN risk_rules.cooldowns
           THEN risk_rules.cooldowns[symbol] ELSE 0) <= 0

\* C29 witness: after a tick one symbol's cooldown has run down to 0, the
\* other symbol has none, the switch is off and a slot is free.
C29_Witness ==
  /\ pc = "ledger" /\ call.fn = "tick"
  /\ ~risk_rules.kill_switch
  /\ risk_rules.positions_open < risk_rules.max_positions
  /\ risk_rules.cooldown_candles > 0
  /\ \E symbol \in DOMAIN risk_rules.cooldowns : risk_rules.cooldowns[symbol] = 0
  /\ \E symbol \in Symbols : symbol \notin DOMAIN risk_rules.cooldowns

\* C30: daily_loss_r is never above 0 and never increases; a
\* register_trade_result call with pnl_r >= 0 leaves it, one with pnl_r < 0
\* lowers it by |pnl_r|, and the kill switch turns on in the call after which
\* |daily_loss_r| >= max_daily_loss_r; no other call touches either.
C30_DailyLoss ==
  [][/\ risk_rules'.daily_loss_r <= 0
     /\ risk_rules'.daily_loss_r <= risk_rules.daily_loss_r
     /\ IF call'.fn = "register_trade_result"
        THEN /\ call'.pnl_r >= 0 => risk_rules'.daily_loss_r = risk_rules.daily_loss_r
             /\ call'.pnl_r < 0 =>
                  risk_rules'.daily_loss_r = risk_rules.daily_loss_r - Abs(call'.pnl_r)
             /\ risk_rules'.kill_switch <=>
                  (risk_rules.kill_switch
                     \/ Abs(risk_rules'.daily_loss_r) >= risk_rules.max_daily_loss_r)
        ELSE /\ risk_rules'.daily_loss_r = risk_rules.daily_loss_r
             /\ risk_rules'.kill_switch = risk_rules.kill_switch]_vars

\* C30 witness: the loss just registered took |daily_loss_r| from below the
\* limit to the limit or past it, and the switch is on.
C30_Witness ==
  /\ pc = "ledger" /\ call.fn = "register_trade_result" /\ call.pnl_r < 0
  /\ Abs(risk_rules.daily_loss_r - call.pnl_r) < risk_rules.max_daily_loss_r
  /\ Abs(risk_rules.daily_loss_r) >= risk_rules.max_daily_loss_r
  /\ risk_rules.daily_loss_r - call.pnl_r < 0
  /\ risk_rules.kill_switch

\* ----------------------------------------- ensemble on its own (C7)

\* every list of strategies drawn from the three, in the runner's order
StrategyLists ==
  {SelectSeq(StrategyNames, LAMBDA name : name \in chosen) : chosen \in SUBSET Range(StrategyNames)}

\* market quality scores on both sides of 50 and of min_trade_score
MqsValues == {0, 49, 50, 69, 70, 100}

InitEnsemble == Boot("ensemble")

CallEnsemble ==
  /\ pc = "ensemble" /\ call = NoCall
  /\ \E strategies \in StrategyLists, cast \in [Range(StrategyNames) -> Directions],
        regime \in Regimes, btc_state \in BtcStates, mqs \in MqsValues :
       call' = [fn |-> "ensemble", strategies |-> strategies, cast |-> cast,
                regime |-> regime, btc_state |-> btc_state, mqs |-> mqs,
                allowed |-> filter_strategies(strategies, regime, btc_state, mqs),
                result |-> ensemble(strategies, cast, regime, btc_state, mqs, 1000)]
  /\ UNCHANGED <<now, ohlcv_data, candles, signals, trades, settings, universe_daily, breaker, clock, pc, idx, universe,
                 last_processed, risk_rules, adaptive_state, open_by_symbol, candle_frames,
                 frame_order, clusters, create_order_calls, crashed, same_window>>

NextEnsemble == CallEnsemble

SpecEnsemble == InitEnsemble /\ [][NextEnsemble]_vars

\* C7: for every list of strategies and every vote they would cast, ensemble
\* answers NONE, admitting and consulting no strategy, whenever mqs < 50 or
\* the regime is CHAOTIC.
C7_EnsembleGate ==
  (call.fn = "ensemble" /\ (call.mqs < 50 \/ call.regime = "CHAOTIC")) =>
     /\ call.result.direction = "NONE"
     /\ call.allowed = <<>>
     /\ DOMAIN call.result.votes = {}

\* C7 witness: three strategies that all vote LONG, a CHAOTIC regime and a
\* market quality score that would otherwise admit them.
C7_Witness ==
  /\ call.fn = "ensemble" /\ call.regime = "CHAOTIC" /\ call.mqs >= 70
  /\ Len(call.strategies) = 3
  /\ \A name \in Range(StrategyNames) : call.cast[name] = "LONG"
  /\ call.btc_state = "EXPANDING_UP"
\* the admitted strategies of the call that voted for the direction
votes_for(direction) ==
  Cardinality({i \in 1..Len(call.allowed) : call.cast[call.allowed[i]] = direction})

\* the votes a direction needs: min(2, T), or all T when 50 <= mqs < min_trade_score
required_votes ==
  IF 50 <= call.mqs /\ call.mqs < min_trade_score THEN Len(call.allowed)
  ELSE Min(2, Len(call.allowed))

\* C16: ensemble returns LONG iff L >= required and L > S, SHORT iff S >=
\* required and S > L, and NONE otherwise, where L and S are the LONG and
\* SHORT votes of the T admitted strategies, required = min(2, T) normally and
\* required = T when 50 <= mqs < min_trade_score.
C16_EnsembleMajority ==
  (call.fn = "ensemble") =>
     /\ (call.result.direction = "LONG") <=>
          (votes_for("LONG") >= required_votes /\ votes_for("LONG") > votes_for("SHORT"))
     /\ (call.result.direction = "SHORT") <=>
          (votes_for("SHORT") >= required_votes /\ votes_for("SHORT") > votes_for("LONG"))
     /\ call.result.direction \in Directions

\* C16 witness: three admitted strategies vote LONG, LONG and SHORT with mqs
\* = 69 < min_trade_score, unanimity is required and the answer is NONE.
C16_Witness ==
  /\ call.fn = "ensemble" /\ call.mqs = 69 /\ Len(call.allowed) = 3
  /\ call.cast["trend_ema"] = "LONG" /\ call.cast["breakout_donchian"] = "LONG"
  /\ call.cast["mean_reversion_bb"] = "SHORT"
  /\ call.result.direction = "NONE"

\* ------------------------------ build_clusters on its own (C18)

\* the columns of the return matrix
ClusterItems == {"A", "B", "C", "D"}

\* every column order of every set of symbols
ColumnOrders ==
  UNION {{order \in [1..Cardinality(chosen) -> chosen] :
            \A i, j \in 1..Cardinality(chosen) : order[i] = order[j] => i = j} :
         chosen \in SUBSET ClusterItems}

InitClusters == Boot("clusters")

\* the return matrix is given by its columns and by the set of pairs {a, b}
\* whose correlation is >= threshold
CallBuildClusters ==
  /\ pc = "clusters" /\ call = NoCall
  /\ \E symbols \in ColumnOrders :
       \E linked \in SUBSET {{a, b} : a, b \in Range(symbols)} :
          /\ \A pair \in linked : Cardinality(pair) = 2
          /\ call' = [fn |-> "build_clusters", symbols |-> symbols, linked |-> linked,
                      clusters |->
                        build_clusters(symbols,
                                       {<<a, b>> \in Range(symbols) \X Range(symbols) :
                                          {a, b} \in linked})]
  /\ UNCHANGED <<now, ohlcv_data, candles, signals, trades, settings, universe_daily, breaker, clock, pc, idx, universe,
                 last_processed, risk_rules, adaptive_state, open_by_symbol, candle_frames,
                 frame_order, clusters, create_order_calls, crashed, same_window>>

NextClusters == CallBuildClusters

SpecClusters == InitClusters /\ [][NextClusters]_vars

\* the symbols a chain of pairs leads to from the group
RECURSIVE chained(_, _)
chained(group, linked) ==
  LET more == group \cup {x \in UNION linked : \E pair \in linked : x \in pair /\ pair \cap group # {}}
  IN IF more = group THEN group ELSE chained(more, linked)

\* C18: build_clusters gives two symbols the same cluster id iff they are
\* connected by a chain of symbol pairs whose return correlation is >=
\* threshold (single linkage), for every set of symbols, in every column
\* order, and every set of above-threshold pairs.
C18_SingleLinkage ==
  (call.fn = "build_clusters") =>
     /\ DOMAIN call.clusters = Range(call.symbols)
     /\ \A a, b \in Range(call.symbols) :
          (call.clusters[a] = call.clusters[b]) <=> (b \in chained({a}, call.linked))

\* C18 witness: of the columns A, B, C only A and B correlate above the
\* threshold; A and B share an id and C has another.
C18_Witness ==
  /\ call.fn = "build_clusters" /\ call.symbols = <<"A", "B", "C">>
  /\ call.linked = {{"A", "B"}}
  /\ call.clusters["A"] = call.clusters["B"]
  /\ call.clusters["C"] # call.clusters["A"]

\* ------------------------------- the adaptive risk on its own (C17)

\* base risks in basis points (0.01 and 0.1), multiples of 100 so that both
\* factors are exact
AdaptiveBases == {100, 1000}
\* drawdowns in basis points on both sides of 0.10 and of 0.20
WeeklyDrawdowns == {0, 999, 1000, 2000}
MonthlyDrawdowns == {0, 1999, 2000}

InitAdaptive == Boot("adaptive")

\* the losses in a row reported by the update_streak calls so far
Losses == IF call = NoCall THEN 0 ELSE call.losses

AdaptiveFrame ==
  UNCHANGED <<now, ohlcv_data, candles, signals, trades, settings, universe_daily, breaker, clock, pc, idx, universe,
              last_processed, risk_rules, open_by_symbol, candle_frames, frame_order,
              clusters, create_order_calls, crashed, same_window>>

CallUpdateStreak ==
  /\ pc = "adaptive" /\ adaptive_state.losing_streak < MaxStreak
  /\ \E pnl \in {-1, 0, 1} :
       /\ adaptive_state' = update_streak(adaptive_state, pnl)
       /\ call' = [fn |-> "update_streak", pnl |-> pnl,
                   losses |-> IF pnl < 0 THEN Losses + 1 ELSE 0]
  /\ AdaptiveFrame

\* the embedder writes the drawdowns into the state
SetDrawdown ==
  /\ pc = "adaptive"
  /\ \E weekly \in WeeklyDrawdowns, monthly \in MonthlyDrawdowns :
       /\ <<weekly, monthly>> # <<adaptive_state.weekly_drawdown, adaptive_state.monthly_drawdown>>
       /\ adaptive_state' = [adaptive_state EXCEPT !.weekly_drawdown = weekly,
                                                   !.monthly_drawdown = monthly]
  /\ call' = [fn |-> "drawdown", losses |-> Losses]
  /\ AdaptiveFrame

CallAdjustRisk ==
  /\ pc = "adaptive"
  /\ \E base_risk \in AdaptiveBases :
       /\ adaptive_state' = adjust_risk(base_risk, adaptive_state).state
       /\ call' = [fn |-> "adjust_risk", base_risk |-> base_risk, before |-> adaptive_state,
                   after |-> adjust_risk(base_risk, adaptive_state).state,
                   risk |-> adjust_risk(base_risk, adaptive_state).risk,
                   losses |-> Losses]
  /\ AdaptiveFrame

NextAdaptive == CallUpdateStreak \/ SetDrawdown \/ CallAdjustRisk

SpecAdaptive == InitAdaptive /\ [][NextAdaptive]_vars

\* the drawdown case of a state
in_drawdown(state) == state.weekly_drawdown >= 1000 \/ state.monthly_drawdown >= 2000

\* C17: adjust_risk(base, state) returns base multiplied by 0.5 when
\* losing_streak >= 3 and by 0.3 when weekly_drawdown >= 0.10 or
\* monthly_drawdown >= 0.20 (both factors when both hold, base unchanged when
\* neither holds) and sets defensive_mode = true exactly in the drawdown
\* case; after three update_streak calls in a row with a loss the result is
\* below base, and below that again once weekly_drawdown = 0.2.
C17_AdjustRisk ==
  (call.fn = "adjust_risk") =>
     /\ call.risk * 100 =
          call.base_risk * (IF call.before.losing_streak >= 3 THEN 5 ELSE 10)
                         * (IF in_drawdown(call.before) THEN 3 ELSE 10)
     /\ call.after = [call.before EXCEPT
                        !.defensive_mode = in_drawdown(call.before) \/ call.before.defensive_mode]
     /\ call.losses >= 3 =>
          /\ call.risk < call.base_risk
          /\ call.before.weekly_drawdown = 2000 =>
               (call.risk * 10 < call.base_risk * 5 /\ call.after.defensive_mode)

\* C17 witness: after three losses in a row and with weekly_drawdown = 0.2
\* adjust_risk turns the defensive mode on and returns 0.15 x base.
C17_Witness ==
  /\ call.fn = "adjust_risk" /\ call.losses = 3
  /\ call.before.weekly_drawdown = 2000 /\ call.before.monthly_drawdown = 0
  /\ ~call.before.defensive_mode /\ call.after.defensive_mode
  /\ call.risk * 100 = call.base_risk * 15

\* C31: AdaptiveState is mutated by the closeout step only: the sizing step,
\* adjust_risk, leaves losing_streak, weekly_drawdown, monthly_drawdown and
\* defensive_mode as they were.
C31_SizingLeavesAdaptiveState == (call.fn = "adjust_risk") => call.after = call.before

\* ---------------------------- the paper executor on its own (C15, C19)

\* the entry price of the calls and their <<stop, take>> levels, below and
\* above the entry either way round
PaperEntry == 100
PaperLevels == {<<95, 105>>, <<105, 95>>}
\* candle highs and lows below, at and beyond the levels
PaperHighs == {103, 105, 106}
PaperLows == {94, 95, 97}

InitPaper == Boot("paper")

PaperCalls == IF call = NoCall THEN 0 ELSE call.n

\* a call that reads the ledger besides its arguments
paper_call_reading_ledger(direction, entry_price, stop_price, take_price, candle_high, candle_low, worst_case_same_candle) ==
  simulate_trade(direction, entry_price, stop_price, take_price, candle_high, candle_low,
                 worst_case_same_candle \/ risk_rules.daily_loss_r < 0)

\* one call of simulate_trade: the result is computed from the arguments alone
paper_call(direction, entry_price, stop_price, take_price, candle_high, candle_low, worst_case_same_candle) ==
  simulate_trade(direction, entry_price, stop_price, take_price, candle_high, candle_low,
                 worst_case_same_candle)

PaperFrame ==
  UNCHANGED <<now, ohlcv_data, candles, signals, trades, settings, universe_daily, breaker, clock, pc, idx, universe,
              last_processed, adaptive_state, open_by_symbol, candle_frames, frame_order,
              clusters, create_order_calls, crashed, same_window>>

\* a call with any arguments; the call before it is remembered
CallSimulateTrade ==
  /\ pc = "paper" /\ PaperCalls < MaxPaperCalls
  /\ \E direction \in {"LONG", "SHORT"}, levels \in PaperLevels,
        candle_high \in PaperHighs, candle_low \in PaperLows,
        worst_case_same_candle \in BOOLEAN :
       call' = [fn |-> "simulate_trade",
                args |-> [direction |-> direction, entry_price |-> PaperEntry,
                          stop_price |-> levels[1], take_price |-> levels[2],
                          candle_high |-> candle_high, candle_low |-> candle_low,
                          worst_case_same_candle |-> worst_case_same_candle],
                result |-> paper_call(direction, PaperEntry, levels[1], levels[2],
                                      candle_high, candle_low, worst_case_same_candle),
                registered |-> FALSE,
                earlier |-> IF call = NoCall THEN <<>>
                            ELSE <<[args |-> call.args, result |-> call.result]>>,
                n |-> PaperCalls + 1]
  /\ UNCHANGED risk_rules
  /\ PaperFrame

\* between two calls the ledger takes the result of a resolved trade, as the
\* closeout of run_live does (lines 318-319)
PaperRegister ==
  /\ pc = "paper" /\ call # NoCall
  /\ ~call.registered /\ call.result.status # "OPEN"
  /\ risk_rules' = register_trade_result(risk_rules,
                      (call.result.pnl_pct * 100) \div risk_per_trade_pct)
  /\ call' = [call EXCEPT !.registered = TRUE]
  /\ PaperFrame

NextPaper == CallSimulateTrade \/ PaperRegister

SpecPaper == InitPaper /\ [][NextPaper]_vars

\* the candle of the call reaches both the stop and the take
both_hit(a) ==
  IF a.direction = "LONG"
  THEN a.candle_low <= a.stop_price /\ a.candle_high >= a.take_price
  ELSE a.candle_high >= a.stop_price /\ a.candle_low <= a.take_price

\* C15: when a candle hits both the stop and the take of a trade (LONG: low
\* <= stop and high >= take; SHORT: high >= stop and low <= take),
\* simulate_trade resolves it as STOP with exit_price = stop when
\* worst_case_same_candle is true, and as TAKE with exit_price = take
\* otherwise.
C15_BothHitResolution ==
  (call.fn = "simulate_trade" /\ both_hit(call.args)) =>
     IF call.args.worst_case_same_candle
     THEN call.result.status = "STOP" /\ call.result.exit_price = call.args.stop_price
     ELSE call.result.status = "TAKE" /\ call.result.exit_price = call.args.take_price

\* C15 witness: a LONG with stop 95 and take 105 meets a candle from 94 to
\* 106 with the optimistic setting, and the call answered TAKE.
C15_Witness ==
  /\ call.fn = "simulate_trade" /\ call.args.direction = "LONG"
  /\ call.args.stop_price = 95 /\ call.args.take_price = 105
  /\ call.args.candle_high = 106 /\ call.args.candle_low = 94
  /\ ~call.args.worst_case_same_candle
  /\ call.result.status = "TAKE"

stop_hit(a) ==
  IF a.direction = "LONG" THEN a.candle_low <= a.stop_price ELSE a.candle_high >= a.stop_price

take_hit(a) ==
  IF a.direction = "LONG" THEN a.candle_high >= a.take_price ELSE a.candle_low <= a.take_price

\* stop and take lie on the losing and the winning side of the entry
correctly_oriented(a) ==
  IF a.direction = "LONG" THEN a.stop_price < a.entry_price /\ a.entry_price < a.take_price
  ELSE a.take_price < a.entry_price /\ a.entry_price < a.stop_price

\* pnl_pct in basis points of a trade that left at exit_price
pnl_of(a, exit_price) ==
  IF a.direction = "LONG" THEN ((exit_price - a.entry_price) * 10000) \div a.entry_price
  ELSE 0 - ((exit_price - a.entry_price) * 10000) \div a.entry_price

\* C37: simulate_trade returns OPEN with exit_price and pnl_pct null exactly
\* when neither level is hit (LONG: low > stop and high < take; SHORT: high <
\* stop and low > take); when exactly one level is hit it returns that
\* level's status with exit_price = the level and pnl_pct = (exit - entry) /
\* entry for LONG, negated for SHORT; a correctly oriented trade has pnl_pct
\* < 0 on STOP and > 0 on TAKE.
C37_SingleCandleResolution ==
  (call.fn = "simulate_trade") =>
    LET a == call.args
        r == call.result
        neither == IF a.direction = "LONG"
                   THEN a.candle_low > a.stop_price /\ a.candle_high < a.take_price
                   ELSE a.candle_high < a.stop_price /\ a.candle_low > a.take_price
    IN /\ (r.status = "OPEN") <=> neither
       /\ (r.status = "OPEN") => (r.exit_price = NULL /\ r.pnl_pct = NULL)
       /\ (stop_hit(a) /\ ~take_hit(a)) =>
            (r.status = "STOP" /\ r.exit_price = a.stop_price
             /\ r.pnl_pct = pnl_of(a, a.stop_price))
       /\ (take_hit(a) /\ ~stop_hit(a)) =>
            (r.status = "TAKE" /\ r.exit_price = a.take_price
             /\ r.pnl_pct = pnl_of(a, a.take_price))
       /\ (correctly_oriented(a) /\ r.status = "STOP") => r.pnl_pct < 0
       /\ (correctly_oriented(a) /\ r.status = "TAKE") => r.pnl_pct > 0

\* C37 witness: a SHORT with stop 105 and take 95 meets a candle whose low
\* is exactly the take and whose high stays below the stop: TAKE at 95 with
\* a gain of 5 %.
C37_Witness ==
  /\ call.fn = "simulate_trade" /\ call.args.direction = "SHORT"
  /\ call.args.stop_price = 105 /\ call.args.take_price = 95
  /\ call.args.candle_low = 95 /\ call.args.candle_high = 103
  /\ call.result.status = "TAKE" /\ call.result.exit_price = 95
  /\ call.result.pnl_pct = 500

\* the strategies the admission rule keeps, as a set
admitted_set(strategies, regime, btc_state) ==
  (Range(strategies)
     \ (IF regime # "RANGE" THEN {"mean_reversion_bb"} ELSE {}))
     \ (IF btc_state \in {"SQUEEZE", "CHOP"} THEN {"trend_ema", "breakout_donchian"} ELSE {})

\* C38: when mqs >= 50 and the regime is not CHAOTIC, the admitted strategies
\* are the given ones without mean_reversion_bb when the regime is not RANGE
\* and without trend_ema and breakout_donchian when the BTC state is SQUEEZE
\* or CHOP, in the order given; only they are consulted and counted in T.
C38_AdmissionFilter ==
  (call.fn = "ensemble" /\ call.mqs >= 50 /\ call.regime # "CHAOTIC") =>
     LET admitted == admitted_set(call.strategies, call.regime, call.btc_state)
     IN /\ call.allowed = SelectSeq(call.strategies, LAMBDA name : name \in admitted)
        /\ DOMAIN call.result.votes = admitted
        /\ \A name \in admitted : call.result.votes[name] = call.cast[name]
        /\ (admitted # {} /\ call.result.direction # "NONE") =>
              call.result.confidence =
                (Cardinality({name \in admitted : call.cast[name] = call.result.direction}) * 100)
                  \div Cardinality(admitted)

\* C38 witness: all three strategies in a RANGE regime with BTC in SQUEEZE:
\* only mean_reversion_bb is admitted, and its LONG decides against the two
\* SHORT verdicts of the strategies left out.
C38_Witness ==
  /\ call.fn = "ensemble" /\ call.mqs >= 70
  /\ call.strategies = StrategyNames
  /\ call.regime = "RANGE" /\ call.btc_state = "SQUEEZE"
  /\ call.allowed = <<"mean_reversion_bb">>
  /\ call.cast["trend_ema"] = "SHORT" /\ call.cast["breakout_donchian"] = "SHORT"
  /\ call.cast["mean_reversion_bb"] = "LONG"
  /\ call.result.direction = "LONG"

\* C40: every trade row opened by run_live references the signal stored in
\* the same decision step for the same symbol, that signal's direction is
\* LONG or SHORT and equals the trade's direction, and no signal is
\* referenced by more than one trade.
C40_TradeReferencesItsSignal ==
  [][\A i \in (Len(trades) + 1)..Len(trades') :
       LET trade == trades'[i]
       IN /\ trade.signal_id \in (Len(signals) + 1)..Len(signals')
          /\ signals'[trade.signal_id].symbol = frame_order[idx]
          /\ signals'[trade.signal_id].type \in {"LONG", "SHORT"}
          /\ signals'[trade.signal_id].type = trade.direction
          /\ \A j \in 1..Len(trades') : j # i => trades'[j].signal_id # trade.signal_id]_vars

\* C40 witness: two trades are in the store, on two symbols, each against
\* its own directional signal, with a NONE signal stored before them.
C40_Witness ==
  /\ Len(trades) >= 2
  /\ trades[1].signal_id # trades[2].signal_id
  /\ signals[trades[1].signal_id].symbol # signals[trades[2].signal_id].symbol
  /\ signals[trades[2].signal_id].type = trades[2].direction
  /\ \E k \in 1..Len(signals) : signals[k].type = "NONE"
=============================================================================
